---------------------------- MODULE Spec2Model ----------------------------
(***************************************************************************)
(* A model of the S-box research analyzer core: the GF(2^8) arithmetic     *)
(* engine (galois_field.py), the affine S-box generator (sbox_generator.py)*)
(* the S-box validator (sbox_validations.py) and the AES-128 CBC cipher    *)
(* with a pluggable S-box (aes_cipher.py).                                 *)
(*                                                                         *)
(* Conventions.  A Python list that the code indexes (exp_table, sbox, a   *)
(* matrix, a round key, the cipher state) is a function on 0..n-1, so the  *)
(* indices are those of the source.  A Python bytes value (key, iv,        *)
(* plaintext, ciphertext) is a sequence; data[i] of the source is          *)
(* data[i+1] here.  A raised exception is a record [kind, msg] carrying    *)
(* the exception class and its message.                                    *)
(***************************************************************************)
EXTENDS Integers, Sequences, FiniteSets, TLC

VARIABLES
    gf,          \* the GF256 object: [exp_table, log_table]
    gf_call,     \* the last GF256 method call: [op, a, b, result]
    gen,         \* the last generate_sbox call: [matrix, constant, sbox]
    report,      \* the last validate_sbox call: [sbox, result]
    cipher,      \* what create_cipher returned or raised: [made, result]
    block_call,  \* the last encrypt_block / decrypt_block call
    enc,         \* the last encrypt call: [plaintext, key, iv, result]
    dec,         \* the last decrypt call: [ciphertext, key, cbc, result]
    inverse_call, \* the last generate_inverse_sbox call: [sbox, result]
    analysis,    \* the last cryptographic_tests.py call: [op, input, result]
    server,      \* main.py's globals: analysis_cache, pending_requests, ...
    handler,     \* each request handler: [pc, endpoint, key, event, response]
    clock,       \* the time datetime.now() returned last, in seconds
    rate_limiter, \* the RateLimiter object: [requests_per_minute, requests, window]
    limiter_call, \* the last RateLimiter method call
    granted,     \* history: client |-> the times is_allowed returned True at
    cache_call,  \* the last call of a cache function of main.py
    failures     \* history: failure cause |-> how the call that had it ended

vars == <<gf, gf_call, gen, report, cipher, block_call, enc, dec, failures,
        inverse_call, analysis, server, handler, clock, rate_limiter,
        limiter_call, granted, cache_call>>

-----
(* Python's integer operators on non-negative integers. *)

\* The function f itself (f @@ <<>> = f), with f[x] computed once for each x
\* of its domain: TLC evaluates the defining expression of a function
\* [x \in S |-> e] again at every application unless it is tabulated.
Eager(f) == f @@ <<>>

RECURSIVE XorBits(_, _)
\* a ^ b, bit by bit
XorBits(a, b) ==
    IF a = 0 THEN b
    ELSE IF b = 0 THEN a
    ELSE ((a + b) % 2) + 2 * XorBits(a \div 2, b \div 2)

RECURSIVE AndBits(_, _)
\* a & b, bit by bit
AndBits(a, b) ==
    IF a = 0 \/ b = 0 THEN 0
    ELSE ((a % 2) * (b % 2)) + 2 * AndBits(a \div 2, b \div 2)

\* a ^ b and a & b of two hexadecimal digits, tabulated
XorDigit == Eager([a \in 0..15 |-> Eager([b \in 0..15 |-> XorBits(a, b)])])

AndDigit == Eager([a \in 0..15 |-> Eager([b \in 0..15 |-> AndBits(a, b)])])

RECURSIVE Xor(_, _)
\* a ^ b, one hexadecimal digit at a time
Xor(a, b) ==
    IF a < 16 /\ b < 16 THEN XorDigit[a][b]
    ELSE XorDigit[a % 16][b % 16] + 16 * Xor(a \div 16, b \div 16)

RECURSIVE And(_, _)
\* a & b, one hexadecimal digit at a time
And(a, b) ==
    IF a < 16 /\ b < 16 THEN AndDigit[a][b]
    ELSE AndDigit[a % 16][b % 16] + 16 * And(a \div 16, b \div 16)

\* a | b
Or(a, b) == a + b - And(a, b)

\* a << n
Shl(a, n) == a * (2 ^ n)

\* a >> n
Shr(a, n) == a \div (2 ^ n)

-----------------------------------------------------------------------------
(* galois_field.py: class GF256 *)

\* REDUCTION_POLY = 0x1B
REDUCTION_POLY == 27

\* [0] * n
Zeros(n) == Eager([i \in 0..(n - 1) |-> 0])

\* The loop body with the generator 2: val = (val << 1), reduced, without
\* "val = temp ^ val"
MulBy2(val) ==
    LET temp0 == Shl(val, 1)
        temp1 == IF And(temp0, 256) # 0 THEN Xor(temp0, REDUCTION_POLY) ELSE temp0
    IN  And(temp1, 255)

\* One pass of the body of "for i in range(1, 255)": the new val.
MulBy3(val) ==
    LET temp0 == Shl(val, 1)
        temp1 == IF And(temp0, 256) # 0 THEN Xor(temp0, REDUCTION_POLY) ELSE temp0
        temp  == And(temp1, 255)
    IN  Xor(temp, val)

(* A loop of the source is a recursive operator on the loop's variables,
   the index i among them: Loop(st, hi) runs the iterations st.i .. hi-1 in
   order.  It runs the first half and then the rest, which bounds the depth
   of the evaluation by the logarithm of the number of iterations. *)

\* The body of "for i in range(1, 255)" after val is computed: the tables
\* get val at i; st is [i, val, exp, log] (i, val, exp_table_new,
\* log_table_new) and v the new val.
GenStore(st, v) ==
    [i   |-> st.i + 1,
     val |-> v,
     exp |-> [st.exp EXCEPT ![st.i] = v],
     log |-> IF v # 0 /\ v # 1 /\ st.log[v] = 0
             THEN [st.log EXCEPT ![v] = st.i]
             ELSE st.log]

\* The body of "for i in range(1, 255)"
GenStep(st) == GenStore(st, MulBy3(st.val))

RECURSIVE GenLoop(_, _)
\* _generate_tables: "for i in range(1, 255)", from st.i up to hi.
GenLoop(st, hi) ==
    IF st.i >= hi THEN st
    ELSE IF st.i + 1 = hi THEN GenStep(st)
    ELSE GenLoop(GenLoop(st, (st.i + hi) \div 2), hi)

RECURSIVE ExtendLoop(_, _)
\* _generate_tables: "for i in range(256, 512):
\*     exp_table_new[i] = exp_table_new[i - 255]"; st is [i, exp].
ExtendLoop(st, hi) ==
    IF st.i >= hi THEN st
    ELSE IF st.i + 1 = hi
         THEN [i |-> st.i + 1, exp |-> [st.exp EXCEPT ![st.i] = st.exp[st.i - 255]]]
    ELSE ExtendLoop(ExtendLoop(st, (st.i + hi) \div 2), hi)

\* _generate_tables from "exp_table_new[255] = 1" on; t is the loop's outcome.
FinishTables(t) ==
    [exp_table |-> ExtendLoop([i |-> 256, exp |-> [t.exp EXCEPT ![255] = 1]],
                              512).exp,
     log_table |-> t.log]

\* GF256.__init__ / _generate_tables: the object after construction.
GenerateTables ==
    FinishTables(GenLoop([i   |-> 1, val |-> 1,
                          exp |-> [Zeros(512) EXCEPT ![0] = 1],
                          log |-> [Zeros(256) EXCEPT ![1] = 0]], 255))

\* multiply without "if a == 0 or b == 0: return 0"
multiply_without_zero(self, a, b) ==
    self.exp_table[(self.log_table[a] + self.log_table[b]) % 255]

\* GF256.multiply
multiply(self, a, b) ==
    IF a = 0 \/ b = 0 THEN 0
    ELSE self.exp_table[(self.log_table[a] + self.log_table[b]) % 255]

\* inverse with the exponent one short: exp_table[254 - log_table[a]]
inverse_off_by_one(self, a) ==
    IF a = 0 THEN 0
    ELSE self.exp_table[254 - self.log_table[a]]

\* inverse without its "if a == 0: return 0"
inverse_unguarded(self, a) == self.exp_table[255 - self.log_table[a]]

\* GF256.inverse
inverse(self, a) ==
    IF a = 0 THEN 0
    ELSE self.exp_table[255 - self.log_table[a]]

\* GF256.add
add(self, a, b) == Xor(a, b)

\* GF256.power
power(self, a, n) ==
    IF a = 0 THEN 0
    ELSE IF n = 0 THEN 1
    ELSE self.exp_table[(self.log_table[a] * n) % 255]

RECURSIVE AffineBit(_, _, _, _)
\* affine_transform's inner loop "for j in range(8)" from j on: the bit.
AffineBit(byte, row, j, bit) ==
    IF j >= 8 THEN bit
    ELSE LET input_bit  == And(Shr(byte, j), 1)
             matrix_bit == And(Shr(row, j), 1)
         IN  AffineBit(byte, row, j + 1, Xor(bit, And(input_bit, matrix_bit)))

RECURSIVE AffineRows(_, _, _, _)
\* affine_transform's outer loop "for i in range(8)" from i on: the result.
AffineRows(byte, matrix, i, result) ==
    IF i >= 8 THEN result
    ELSE LET bit == AffineBit(byte, matrix[i], 0, 0)
         IN  AffineRows(byte, matrix, i + 1, Or(result, Shl(bit, i)))

\* affine_transform with "result |= constant" for "result ^= constant"
affine_transform_or(byte, matrix, constant) ==
    Or(AffineRows(byte, matrix, 0, 0), constant)

\* affine_transform(byte, matrix, constant)
affine_transform(byte, matrix, constant) ==
    Xor(AffineRows(byte, matrix, 0, 0), constant)

\* matrix_vector_mult_gf2(matrix, vector)
matrix_vector_mult_gf2(matrix, vector) == AffineRows(vector, matrix, 0, 0)

-----------------------------------------------------------------------------
(* sbox_generator.py *)

\* A Python list literal, indexed from 0.
List(seq) == Eager([i \in 0..(Len(seq) - 1) |-> seq[i + 1]])

\* len(list)
LenList(l) == Cardinality(DOMAIN l)

C_AES == 99

K44_MATRIX == List(<<87, 171, 213, 234, 117, 186, 93, 174>>)

K43_MATRIX == List(<<213, 171, 87, 234, 117, 186, 93, 174>>)

K45_MATRIX == List(<<87, 171, 213, 234, 186, 117, 93, 174>>)

AES_MATRIX == List(<<241, 227, 199, 143, 31, 62, 124, 248>>)

IDENTITY_MATRIX == List(<<128, 64, 32, 16, 8, 4, 2, 1>>)

K44_ROTATED == List(<<174, 87, 171, 213, 234, 117, 186, 93>>)

\* SBoxGenerator.__init__: self.gf = GF256()
SBoxGenerator == [gf |-> GenerateTables]

\* generate_sbox without step 1: the affine transformation of x itself
generate_sbox_no_inverse(self, matrix, constant) ==
    Eager([x \in 0..255 |-> affine_transform(x, matrix, constant)])

\* SBoxGenerator.generate_sbox(matrix, constant)
generate_sbox(self, matrix, constant) ==
    Eager([x \in 0..255 |->
            affine_transform(inverse(self.gf, x), matrix, constant)])

\* SBoxGenerator.generate_k44_sbox()
generate_k44_sbox(self) == generate_sbox(self, K44_MATRIX, C_AES)

\* SBoxGenerator.generate_aes_sbox()
generate_aes_sbox(self) == generate_sbox(self, AES_MATRIX, C_AES)

RECURSIVE InverseLoop(_, _, _)
\* generate_inverse_sbox: "for i in range(256): inv_sbox[sbox[i]] = i",
\* from st.i up to hi; st is [i, inv_sbox].
InverseLoop(sbox, st, hi) ==
    IF st.i >= hi THEN st
    ELSE IF st.i + 1 = hi
         THEN [i |-> st.i + 1,
               inv_sbox |-> [st.inv_sbox EXCEPT ![sbox[st.i]] = st.i]]
    ELSE InverseLoop(sbox, InverseLoop(sbox, st, (st.i + hi) \div 2), hi)

\* generate_inverse_sbox with "inv_sbox[i] = sbox[i]"
generate_inverse_sbox_copy(self, sbox) ==
    Eager([i \in 0..255 |-> sbox[i]])

\* SBoxGenerator.generate_inverse_sbox(sbox)
generate_inverse_sbox(self, sbox) ==
    InverseLoop(sbox, [i |-> 0, inv_sbox |-> Zeros(256)], 256).inv_sbox

-----------------------------------------------------------------------------
(* sbox_validations.py *)

RECURSIVE SumBit(_, _, _, _)
\* sum((value >> bit) & 1 for value in sbox[lo:hi])
SumBit(sbox, bit, lo, hi) ==
    IF hi <= lo THEN 0
    ELSE IF lo + 1 = hi THEN And(Shr(sbox[lo], bit), 1)
    ELSE LET mid == (lo + hi) \div 2
         IN  SumBit(sbox, bit, lo, mid) + SumBit(sbox, bit, mid, hi)

\* One entry of the list _compute_bit_balance returns
BitBalance(bit, ones, total_entries) ==
    [bit |-> bit, ones |-> ones, zeros |-> total_entries - ones,
     expected |-> total_entries \div 2]

\* _compute_bit_balance(sbox)
compute_bit_balance(sbox) ==
    Eager([bit \in 0..7 |->
        BitBalance(bit, SumBit(sbox, bit, 0, LenList(sbox)), LenList(sbox))])

\* "counts[value] = counts.get(value, 0) + 1" for value = sbox[st.i]; st is
\* [i, keys, count]: the dict counts as its keys in insertion order and the
\* count of each key.
CountStep(sbox, st) ==
    LET value == sbox[st.i]
    IN  IF value \in DOMAIN st.count
        THEN [st EXCEPT !.i = @ + 1, !.count[value] = @ + 1]
        ELSE [i     |-> st.i + 1,
              keys  |-> Append(st.keys, value),
              count |-> Eager([v \in DOMAIN st.count \cup {value} |->
                           IF v = value THEN 1 ELSE st.count[v]])]

RECURSIVE CountLoop(_, _, _)
\* _compute_bijectivity_details: "for value in sbox", from st.i up to hi.
CountLoop(sbox, st, hi) ==
    IF st.i >= hi THEN st
    ELSE IF st.i + 1 = hi THEN CountStep(sbox, st)
    ELSE CountLoop(sbox, CountLoop(sbox, st, (st.i + hi) \div 2), hi)

\* Duplicates with "if count > 2"
Duplicates_over_two(counts) ==
    LET Repeated(value) == counts.count[value] > 2
        kept == SelectSeq(counts.keys, Repeated)
    IN  Eager([k \in 1..Len(kept) |->
            [value |-> kept[k], count |-> counts.count[kept[k]]]])

\* [{"value": value, "count": count} for value, count in counts.items()
\*  if count > 1]
Duplicates(counts) ==
    LET Repeated(value) == counts.count[value] > 1
        kept == SelectSeq(counts.keys, Repeated)
    IN  Eager([k \in 1..Len(kept) |->
            [value |-> kept[k], count |-> counts.count[kept[k]]]])

\* [value for value in range(256) if value not in counts]
Missing(counts) ==
    LET Absent(value) == value \notin DOMAIN counts.count
    IN  SelectSeq([k \in 1..256 |-> k - 1], Absent)

\* _compute_bijectivity_details after its first loop; counts is the dict.
BijectivityDetails(counts) ==
    [duplicates    |-> Duplicates(counts),
     missing       |-> Missing(counts),
     unique_values |-> Len(counts.keys)]

\* _compute_bijectivity_details(sbox)
compute_bijectivity_details(sbox) ==
    BijectivityDetails(
        CountLoop(sbox, [i |-> 0, keys |-> <<>>, count |-> <<>>], LenList(sbox)))

\* validate_sbox from "balance_ok =" on
ValidationReport(bit_balances, bijectivity_stats) ==
    LET balance_ok   == \A b \in DOMAIN bit_balances :
                           bit_balances[b].ones = bit_balances[b].expected
        bijective_ok == /\ Len(bijectivity_stats.duplicates) = 0
                        /\ Len(bijectivity_stats.missing) = 0
    IN  [is_balanced      |-> balance_ok,
         is_bijective     |-> bijective_ok,
         bit_balance      |-> bit_balances,
         duplicate_values |-> bijectivity_stats.duplicates,
         missing_values   |-> bijectivity_stats.missing,
         unique_values    |-> bijectivity_stats.unique_values,
         is_valid         |-> balance_ok /\ bijective_ok]

\* validate_sbox(sbox)
validate_sbox(sbox) ==
    ValidationReport(compute_bit_balance(sbox),
                     compute_bijectivity_details(sbox))

-----------------------------------------------------------------------------
(* aes_cipher.py: results and exceptions *)

\* A call that returns value.
Ok(value) == [ok |-> TRUE, value |-> value]

\* raise kind(msg)
Raise(kind, msg) == [ok |-> FALSE, kind |-> kind, msg |-> msg]

\* bytes(list): the list's entries as a byte string.
Bytes(l) == Eager([i \in 1..LenList(l) |-> l[i - 1]])

\* isinstance(key, (bytes, bytearray)): a byte string is indexed from 1 here,
\* a list (of round keys) from 0.
IsBytes(key) == 0 \notin DOMAIN key

\* data[a:b] of a byte string, 0 <= a
Slice(data, a, b) ==
    LET hi == IF b > Len(data) THEN Len(data) ELSE b
    IN  IF a >= hi THEN <<>> ELSE SubSeq(data, a + 1, hi)

-----------------------------------------------------------------------------
(* aes_cipher.py: class AESCipher *)

N_ROUNDS == 10

N_BLOCK == 16

N_KEY == 16

RCON == List(<<1, 2, 4, 8, 16, 32, 64, 128, 27, 54>>)

\* AESCipher.__init__(sbox, inv_sbox)
AESCipherInit(sbox, inv_sbox) ==
    IF LenList(sbox) # 256 \/ LenList(inv_sbox) # 256
    THEN Raise("ValueError", "S-box must contain exactly 256 values")
    ELSE Ok([sbox |-> sbox, inv_sbox |-> inv_sbox])

\* self.generator.generate_aes_sbox(): self.generator is the SBoxGenerator()
\* that __init__ builds and nothing changes, so the call returns this table
\* whatever the cipher's own sbox and inv_sbox are.
GeneratorAesSbox == generate_aes_sbox(SBoxGenerator)

\* _rot_word rotating the other way: word[-1:] + word[:-1]
rot_word_right(word) == Eager([j \in 0..3 |-> word[(j + 3) % 4]])

\* AESCipher._rot_word(word): word[1:] + word[:1]
rot_word(word) == Eager([j \in 0..3 |-> word[(j + 1) % 4]])

\* AESCipher._sub_word(word, sbox)
sub_word(word, sbox) == Eager([j \in 0..3 |-> sbox[word[j]]])

\* The body of _key_expansion's "for i in range(4, 44)"; st is [i, w], w the
\* list of words so far.
ExpandStep(st, aes_sbox) ==
    LET i     == st.i
        w     == st.w
        temp0 == w[i - 1]
        temp  == IF i % 4 = 0
                 THEN LET t == sub_word(rot_word(temp0), aes_sbox)
                      IN  [t EXCEPT ![0] = Xor(@, RCON[(i \div 4) - 1])]
                 ELSE temp0
        word  == Eager([j \in 0..3 |-> Xor(w[i - 4][j], temp[j])])
    IN  [i |-> i + 1,
         w |-> Eager([k \in 0..i |-> IF k = i THEN word ELSE w[k]])]

RECURSIVE ExpandLoop(_, _, _)
\* _key_expansion: "for i in range(4, 44)", from st.i up to hi.
ExpandLoop(st, hi, aes_sbox) ==
    IF st.i >= hi THEN st
    ELSE IF st.i + 1 = hi THEN ExpandStep(st, aes_sbox)
    ELSE ExpandLoop(ExpandLoop(st, (st.i + hi) \div 2, aes_sbox), hi, aes_sbox)

\* _key_expansion with "aes_sbox = self.sbox": the schedule substitutes with
\* the cipher's own S-box.
key_expansion_own_sbox(self, key) ==
    IF Len(key) # N_KEY
    THEN Raise("ValueError", "Key must be exactly 16 bytes")
    ELSE LET w0 == Eager([i \in 0..3 |->
                      Eager([j \in 0..3 |-> key[(4 * i + j) + 1]])])
             w  == ExpandLoop([i |-> 4, w |-> w0], 44, self.sbox).w
         IN  Ok(Eager([i \in 0..10 |->
                   Eager([k \in 0..15 |-> w[4 * i + (k \div 4)][k % 4]])]))

\* AESCipher._key_expansion(key)
key_expansion(self, key) ==
    IF Len(key) # N_KEY
    THEN Raise("ValueError", "Key must be exactly 16 bytes")
    ELSE LET aes_sbox == GeneratorAesSbox
             w0 == Eager([i \in 0..3 |->
                      Eager([j \in 0..3 |-> key[(4 * i + j) + 1]])])
             w  == ExpandLoop([i |-> 4, w |-> w0], 44, aes_sbox).w
         IN  Ok(Eager([i \in 0..10 |->
                   Eager([k \in 0..15 |-> w[4 * i + (k \div 4)][k % 4]])]))

\* AESCipher._add_round_key(state, round_key)
add_round_key(state, round_key) ==
    Eager([i \in 0..15 |-> Xor(state[i], round_key[i])])

\* AESCipher._sub_bytes(state)
sub_bytes(self, state) ==
    Eager([i \in DOMAIN state |-> self.sbox[state[i]]])

\* AESCipher._inv_sub_bytes(state)
inv_sub_bytes(self, state) ==
    Eager([i \in DOMAIN state |-> self.inv_sbox[state[i]]])

\* The state as the row-major 4x4 matrix: matrix[i][j] = state[i + 4*j]
ToMatrix(state) ==
    Eager([i \in 0..3 |-> Eager([j \in 0..3 |-> state[i + 4 * j]])])

\* The matrix back as the column-major state: result[i + 4*j] = matrix[i][j]
FromMatrix(matrix) == Eager([k \in 0..15 |-> matrix[k % 4][k \div 4]])

\* row[n:] + row[:n]
RotLeft(row, n) == Eager([j \in 0..3 |-> row[(j + n) % 4]])

\* row[-n:] + row[:-n]
RotRight(row, n) == Eager([j \in 0..3 |-> row[(j + 4 - n) % 4]])

\* AESCipher._shift_rows(state)
shift_rows(state) ==
    LET matrix == ToMatrix(state)
    IN  FromMatrix([matrix EXCEPT ![1] = RotLeft(matrix[1], 1),
                                  ![2] = RotLeft(matrix[2], 2),
                                  ![3] = RotLeft(matrix[3], 3)])

\* _inv_shift_rows rotating the rows left, as _shift_rows does
inv_shift_rows_left(state) ==
    LET matrix == ToMatrix(state)
    IN  FromMatrix([matrix EXCEPT ![1] = RotLeft(matrix[1], 1),
                                  ![2] = RotLeft(matrix[2], 2),
                                  ![3] = RotLeft(matrix[3], 3)])

\* AESCipher._inv_shift_rows(state)
inv_shift_rows(state) ==
    LET matrix == ToMatrix(state)
    IN  FromMatrix([matrix EXCEPT ![1] = RotRight(matrix[1], 1),
                                  ![2] = RotRight(matrix[2], 2),
                                  ![3] = RotRight(matrix[3], 3)])

RECURSIVE GfMulLoop(_, _, _, _)
\* _gf_multiply's loop "for i in range(8)" from i on.
GfMulLoop(a, b, i, result) ==
    IF i >= 8 THEN result
    ELSE LET result2 == IF And(b, 1) # 0 THEN Xor(result, a) ELSE result
             a1      == Shl(a, 1)
             a2      == IF And(a1, 256) # 0 THEN Xor(a1, 27) ELSE a1
         IN  GfMulLoop(a2, Shr(b, 1), i + 1, result2)

\* AESCipher._gf_multiply(a, b)
gf_multiply(a, b) == And(GfMulLoop(a, b, 0, 0), 255)

\* AESCipher._mix_columns(state)
mix_columns(state) ==
    Eager([k \in 0..15 |->
        LET c  == k \div 4
            s0 == state[0 + 4 * c]
            s1 == state[1 + 4 * c]
            s2 == state[2 + 4 * c]
            s3 == state[3 + 4 * c]
        IN  CASE k % 4 = 0 ->
                   Xor(Xor(Xor(gf_multiply(2, s0), gf_multiply(3, s1)), s2), s3)
              [] k % 4 = 1 ->
                   Xor(Xor(Xor(s0, gf_multiply(2, s1)), gf_multiply(3, s2)), s3)
              [] k % 4 = 2 ->
                   Xor(Xor(Xor(s0, s1), gf_multiply(2, s2)), gf_multiply(3, s3))
              [] k % 4 = 3 ->
                   Xor(Xor(Xor(gf_multiply(3, s0), s1), s2), gf_multiply(2, s3))])

\* AESCipher._inv_mix_columns(state)
inv_mix_columns(state) ==
    Eager([k \in 0..15 |->
        LET c  == k \div 4
            s0 == state[0 + 4 * c]
            s1 == state[1 + 4 * c]
            s2 == state[2 + 4 * c]
            s3 == state[3 + 4 * c]
        IN  CASE k % 4 = 0 ->
                   Xor(Xor(Xor(gf_multiply(14, s0), gf_multiply(11, s1)),
                           gf_multiply(13, s2)), gf_multiply(9, s3))
              [] k % 4 = 1 ->
                   Xor(Xor(Xor(gf_multiply(9, s0), gf_multiply(14, s1)),
                           gf_multiply(11, s2)), gf_multiply(13, s3))
              [] k % 4 = 2 ->
                   Xor(Xor(Xor(gf_multiply(13, s0), gf_multiply(9, s1)),
                           gf_multiply(14, s2)), gf_multiply(11, s3))
              [] k % 4 = 3 ->
                   Xor(Xor(Xor(gf_multiply(11, s0), gf_multiply(13, s1)),
                           gf_multiply(9, s2)), gf_multiply(14, s3))])

RECURSIVE EncryptRounds(_, _, _)
\* encrypt_block's main rounds "for round_num in range(1, N_ROUNDS)" from
\* st.round_num on; st is [round_num, state].
EncryptRounds(self, st, round_keys) ==
    IF st.round_num >= N_ROUNDS THEN st
    ELSE EncryptRounds(self,
            [round_num |-> st.round_num + 1,
             state     |-> add_round_key(
                             mix_columns(shift_rows(sub_bytes(self, st.state))),
                             round_keys[st.round_num])],
            round_keys)

\* encrypt_block from "# Initial round: AddRoundKey" on
EncryptState(self, state, round_keys) ==
    LET state0 == add_round_key(state, round_keys[0])
        state1 == EncryptRounds(self, [round_num |-> 1, state |-> state0],
                                round_keys).state
    IN  add_round_key(shift_rows(sub_bytes(self, state1)), round_keys[N_ROUNDS])

\* encrypt_block once round_keys is set: expanded is the round keys, or the
\* exception _key_expansion raised.
EncryptBlockWith(self, plaintext, expanded) ==
    IF ~expanded.ok THEN expanded
    ELSE Ok(Bytes(EncryptState(self, List(plaintext), expanded.value)))

\* AESCipher.encrypt_block(plaintext, key); key is a raw key or the round keys.
encrypt_block(self, plaintext, key) ==
    IF Len(plaintext) # N_BLOCK
    THEN Raise("ValueError", "Plaintext must be exactly 16 bytes")
    ELSE EncryptBlockWith(self, plaintext,
            IF IsBytes(key) THEN key_expansion(self, key) ELSE Ok(key))

RECURSIVE DecryptRounds(_, _, _)
\* decrypt_block's main rounds "for round_num in range(N_ROUNDS - 1, 0, -1)"
\* from st.round_num down; st is [round_num, state].
DecryptRounds(self, st, round_keys) ==
    IF st.round_num <= 0 THEN st
    ELSE DecryptRounds(self,
            [round_num |-> st.round_num - 1,
             state     |-> inv_mix_columns(
                             add_round_key(
                               inv_sub_bytes(self, inv_shift_rows(st.state)),
                               round_keys[st.round_num]))],
            round_keys)

\* decrypt_block from "# Initial round: AddRoundKey (with last round key)" on
DecryptState(self, state, round_keys) ==
    LET state0 == add_round_key(state, round_keys[N_ROUNDS])
        state1 == DecryptRounds(self,
                     [round_num |-> N_ROUNDS - 1, state |-> state0],
                     round_keys).state
    IN  add_round_key(inv_sub_bytes(self, inv_shift_rows(state1)), round_keys[0])

\* decrypt_block once round_keys is set: expanded is the round keys, or the
\* exception _key_expansion raised.
DecryptBlockWith(self, ciphertext, expanded) ==
    IF ~expanded.ok THEN expanded
    ELSE Ok(Bytes(DecryptState(self, List(ciphertext), expanded.value)))

\* AESCipher.decrypt_block(ciphertext, key)
decrypt_block(self, ciphertext, key) ==
    IF Len(ciphertext) # N_BLOCK
    THEN Raise("ValueError", "Ciphertext must be exactly 16 bytes")
    ELSE DecryptBlockWith(self, ciphertext,
            IF IsBytes(key) THEN key_expansion(self, key) ELSE Ok(key))

\* _pkcs7_pad with "bytes(pad_len)" for "bytes([pad_len] * pad_len)": the
\* padding bytes are zero
pkcs7_pad_zeros(data, block_size) ==
    data \o Eager([k \in 1..(block_size - (Len(data) % block_size)) |-> 0])

\* AESCipher._pkcs7_pad(data, block_size)
pkcs7_pad(data, block_size) ==
    LET pad_len == block_size - (Len(data) % block_size)
        padding == Eager([k \in 1..pad_len |-> pad_len])
    IN  data \o padding

\* _pkcs7_unpad without its loop that verifies the padding bytes
pkcs7_unpad_unchecked(data) ==
    IF Len(data) = 0 THEN Raise("ValueError", "Cannot unpad empty data")
    ELSE LET pad_len == data[Len(data)]
         IN  IF pad_len < 1 \/ pad_len > 16
             THEN Raise("ValueError", "Invalid padding")
             ELSE IF Len(data) < pad_len
             THEN Raise("ValueError", "Data too short for padding")
             ELSE Ok(Slice(data, 0, Len(data) - pad_len))

\* AESCipher._pkcs7_unpad(data)
pkcs7_unpad(data) ==
    IF Len(data) = 0 THEN Raise("ValueError", "Cannot unpad empty data")
    ELSE LET pad_len == data[Len(data)]
         IN  IF pad_len < 1 \/ pad_len > 16
             THEN Raise("ValueError", "Invalid padding")
             ELSE IF Len(data) < pad_len
             THEN Raise("ValueError", "Data too short for padding")
             ELSE IF \E i \in (Len(data) - pad_len)..(Len(data) - 1) :
                        data[i + 1] # pad_len
             THEN Raise("ValueError", "Invalid padding bytes")
             ELSE Ok(Slice(data, 0, Len(data) - pad_len))

\* iv=None
None == <<-1>>

\* bytes([a[j] ^ b[j] for j in range(N_BLOCK)])
XorBlocks(a, b) == Eager([j \in 1..N_BLOCK |-> Xor(a[j], b[j])])

RECURSIVE EncryptLoop(_, _, _, _)
RECURSIVE EncryptNext(_, _, _, _, _)
\* The body of encrypt's loop after "encrypted = self.encrypt_block(...)",
\* then the rest of the loop.
EncryptNext(self, padded_data, round_keys, st, encrypted) ==
    IF ~encrypted.ok THEN encrypted
    ELSE EncryptLoop(self, padded_data, round_keys,
            [i          |-> st.i + N_BLOCK,
             prev_block |-> encrypted.value,
             ciphertext |-> st.ciphertext \o encrypted.value])

\* encrypt's loop "for i in range(0, len(padded_data), N_BLOCK)" from st.i on;
\* st is [i, prev_block, ciphertext].
EncryptLoop(self, padded_data, round_keys, st) ==
    IF st.i >= Len(padded_data) THEN Ok(st.ciphertext)
    ELSE EncryptNext(self, padded_data, round_keys, st,
            encrypt_block(self,
                XorBlocks(Slice(padded_data, st.i, st.i + N_BLOCK), st.prev_block),
                round_keys))

\* "return iv + ciphertext"; body is the loop's outcome.
PrependIv(iv, body) == IF ~body.ok THEN body ELSE Ok(iv \o body.value)

\* encrypt from "# Encrypt in CBC mode" on; expanded is the round keys, or the
\* exception _key_expansion raised.
EncryptWith(self, iv, padded_data, expanded) ==
    IF ~expanded.ok THEN expanded
    ELSE PrependIv(iv,
            EncryptLoop(self, padded_data, expanded.value,
                [i |-> 0, prev_block |-> iv, ciphertext |-> <<>>]))

\* AESCipher.encrypt(plaintext, key, iv); urandom is what os.urandom(16)
\* returns when it is called.
encrypt(self, plaintext, key, iv, urandom) ==
    IF iv # None /\ Len(iv) # 16
    THEN Raise("ValueError", "IV must be exactly 16 bytes")
    ELSE EncryptWith(self, IF iv = None THEN urandom ELSE iv,
                     pkcs7_pad(plaintext, N_BLOCK), key_expansion(self, key))

RECURSIVE DecryptLoop(_, _, _, _)
RECURSIVE DecryptNext(_, _, _, _, _, _)
\* The body of decrypt's loop after "decrypted = self.decrypt_block(...)",
\* then the rest of the loop.
DecryptNext(self, encrypted_data, round_keys, st, block, decrypted) ==
    IF ~decrypted.ok THEN decrypted
    ELSE DecryptLoop(self, encrypted_data, round_keys,
            [i          |-> st.i + N_BLOCK,
             prev_block |-> block,
             plaintext  |-> st.plaintext \o
                                XorBlocks(decrypted.value, st.prev_block)])

\* The body of decrypt's loop from "decrypted =" on, for this block.
DecryptAt(self, encrypted_data, round_keys, st, block) ==
    DecryptNext(self, encrypted_data, round_keys, st, block,
                decrypt_block(self, block, round_keys))

\* decrypt's loop "for i in range(0, len(encrypted_data), N_BLOCK)" from st.i
\* on; st is [i, prev_block, plaintext].
DecryptLoop(self, encrypted_data, round_keys, st) ==
    IF st.i >= Len(encrypted_data) THEN Ok(st.plaintext)
    ELSE DecryptAt(self, encrypted_data, round_keys, st,
                   Slice(encrypted_data, st.i, st.i + N_BLOCK))

\* decrypt from "# Decrypt in CBC mode" up to "# Remove padding"; expanded is
\* the round keys, or the exception _key_expansion raised.
DecryptWith(self, iv, encrypted_data, expanded) ==
    IF ~expanded.ok THEN expanded
    ELSE DecryptLoop(self, encrypted_data, expanded.value,
            [i |-> 0, prev_block |-> iv, plaintext |-> <<>>])

\* decrypt up to "# Remove padding" with "len(ciphertext) < 16" as its first
\* test: it asks for the IV only.
decrypt_cbc_iv_only(self, ciphertext, key) ==
    IF Len(ciphertext) < 16 THEN Raise("ValueError", "Ciphertext too short")
    ELSE DecryptWith(self, Slice(ciphertext, 0, 16),
                     Slice(ciphertext, 16, Len(ciphertext)),
                     key_expansion(self, key))

\* AESCipher.decrypt(ciphertext, key) up to "# Remove padding": the local
\* plaintext (the CBC-decrypted data, padding included), or the exception.
decrypt_cbc(self, ciphertext, key) ==
    IF Len(ciphertext) < 32 THEN Raise("ValueError", "Ciphertext too short")
    ELSE DecryptWith(self, Slice(ciphertext, 0, 16),
                     Slice(ciphertext, 16, Len(ciphertext)),
                     key_expansion(self, key))

\* decrypt's last two statements, on the outcome of the part before them.
decrypt_unpad(cbc) == IF ~cbc.ok THEN cbc ELSE pkcs7_unpad(cbc.value)

\* AESCipher.decrypt(ciphertext, key)
decrypt(self, ciphertext, key) ==
    decrypt_unpad(decrypt_cbc(self, ciphertext, key))

\* sbox_type.lower(), on the type names the callers pass
Lower(sbox_type) ==
    CASE sbox_type = "K44"    -> "k44"
      [] sbox_type = "AES"    -> "aes"
      [] sbox_type = "Custom" -> "custom"
      [] OTHER                -> sbox_type

\* custom_sbox=None
NoSbox == <<-1>>

\* create_cipher's choice of sbox: the table, or the exception raised.
ChooseSbox(generator, sbox_type, custom_sbox) ==
    IF Lower(sbox_type) = "custom"
    THEN IF custom_sbox = NoSbox
         THEN Raise("ValueError",
                    "custom_sbox is required when sbox_type is 'custom'")
         ELSE IF LenList(custom_sbox) # 256
         THEN Raise("ValueError", "Custom S-box must contain exactly 256 values")
         ELSE Ok(custom_sbox)
    ELSE IF Lower(sbox_type) = "k44" THEN Ok(generate_k44_sbox(generator))
    ELSE IF Lower(sbox_type) = "aes" THEN Ok(generate_aes_sbox(generator))
    ELSE Raise("ValueError", "Unknown S-box type: " \o sbox_type)

\* create_cipher from "inv_sbox =" on
BuildCipher(generator, chosen) ==
    IF ~chosen.ok THEN chosen
    ELSE AESCipherInit(chosen.value,
                       generate_inverse_sbox(generator, chosen.value))

\* create_cipher(sbox_type, custom_sbox)
create_cipher(sbox_type, custom_sbox) ==
    BuildCipher(SBoxGenerator,
                ChooseSbox(SBoxGenerator, sbox_type, custom_sbox))

-----------------------------------------------------------------------------
(* The state before any call, and the inputs of the calls. *)

Byte == 0..255

\* No call made yet.
NoCall == [op |-> "none"]

\* Nothing made yet (no S-box generated, no report, no cipher).
NotMade == [made |-> FALSE]

\* What the other components hold while one component is exercised.
Idle(names) ==
    /\ ("gf_call" \in names    => gf_call = NoCall)
    /\ ("gen" \in names        => gen = NotMade)
    /\ ("report" \in names     => report = NotMade)
    /\ ("cipher" \in names     => cipher = NotMade)
    /\ ("block_call" \in names => block_call = NoCall)
    /\ ("enc" \in names        => enc = NoCall)
    /\ ("dec" \in names        => dec = NoCall)
    /\ ("failures" \in names   => failures = <<>>)
    /\ ("cache_call" \in names => cache_call = NoCall)
    /\ ("granted" \in names => granted = <<>>)
    /\ ("limiter_call" \in names => limiter_call = NoCall)
    /\ ("rate_limiter" \in names => rate_limiter = NotMade)
    /\ ("clock" \in names => clock = 0)
    /\ ("handler" \in names => handler = <<>>)
    /\ ("server" \in names => server = NotMade)
    /\ ("analysis" \in names => analysis = NoCall)
    /\ ("inverse_call" \in names => inverse_call = NoCall)

-----------------------------------------------------------------------------
(* GF256: one method call on the object.  The methods read the tables and
   change nothing, so a behaviour makes one call, with any arguments. *)

\* The largest exponent passed to power
MaxExponent == 4

\* Second operands of add
SecondOperands == {0, 1, 27, 83, 202, 255}

InitGF ==
    /\ gf = GenerateTables
    /\ Idle({"gf_call", "gen", "report", "cipher", "block_call", "enc", "dec",
             "failures",
             "inverse_call",
             "analysis",
             "server",
             "handler",
             "clock",
             "rate_limiter",
             "limiter_call",
             "granted",
             "cache_call"})

Multiply ==
    /\ gf_call = NoCall
    /\ \E a \in Byte, b \in Byte :
          gf_call' = [op |-> "multiply", a |-> a, b |-> b,
                      result |-> multiply(gf, a, b)]
    /\ UNCHANGED <<gf, gen, report, cipher, block_call, enc, dec, failures,
        inverse_call, analysis, server, handler, clock, rate_limiter,
        limiter_call, granted, cache_call>>

Inverse ==
    /\ gf_call = NoCall
    /\ \E a \in Byte :
          gf_call' = [op |-> "inverse", a |-> a, result |-> inverse(gf, a)]
    /\ UNCHANGED <<gf, gen, report, cipher, block_call, enc, dec, failures,
        inverse_call, analysis, server, handler, clock, rate_limiter,
        limiter_call, granted, cache_call>>

Add ==
    /\ gf_call = NoCall
    /\ \E a \in Byte, b \in SecondOperands :
          gf_call' = [op |-> "add", a |-> a, b |-> b, result |-> add(gf, a, b)]
    /\ UNCHANGED <<gf, gen, report, cipher, block_call, enc, dec, failures,
        inverse_call, analysis, server, handler, clock, rate_limiter,
        limiter_call, granted, cache_call>>

Power ==
    /\ gf_call = NoCall
    /\ \E a \in Byte, n \in 0..MaxExponent :
          gf_call' = [op |-> "power", a |-> a, n |-> n,
                      result |-> power(gf, a, n)]
    /\ UNCHANGED <<gf, gen, report, cipher, block_call, enc, dec, failures,
        inverse_call, analysis, server, handler, clock, rate_limiter,
        limiter_call, granted, cache_call>>

NextGF == Multiply \/ Inverse \/ Add \/ Power

SpecGF == InitGF /\ [][NextGF]_vars

\* The tables of self are the powers of the generator 3 and their logarithms
TablesWellFormed(self) ==
    /\ \A i \in 0..254 : self.exp_table[i] \in 1..255
    /\ Cardinality({self.exp_table[i] : i \in 0..254}) = 255
    /\ self.exp_table[0] = 1
    /\ \A i \in 0..253 : self.exp_table[i + 1] = gf_multiply(self.exp_table[i], 3)
    /\ self.log_table[1] = 0
    /\ \A a \in 1..255 : self.exp_table[self.log_table[a]] = a
    /\ \A i \in 255..511 : self.exp_table[i] = self.exp_table[i - 255]

\* C18: after construction exp_table[0..254] holds 255 pairwise distinct
\* nonzero bytes, the successive powers of 3, log_table[1] = 0,
\* exp_table[log_table[a]] = a for a in 1..255 and exp_table[i] =
\* exp_table[i - 255] for i in 255..511; no call to multiply, inverse, add or
\* power changes either table.  The first conjunct speaks of the state after
\* construction, the second of every step after it.
TablesStayWellFormed ==
    /\ TablesWellFormed(gf)
    /\ [][gf' = gf]_vars

\* A call of power has returned on the constructed tables: 3^2 = 5, with
\* log_table[3] = 1 and exp_table[2] = 5
PowerCalledOnTables ==
    /\ gf_call.op = "power" /\ gf_call.a = 3 /\ gf_call.n = 2
    /\ gf_call.result = 5
    /\ gf.log_table[3] = 1 /\ gf.exp_table[2] = 5 /\ gf.exp_table[511] = 3

-----------------------------------------------------------------------------
(* S-box generation and validation: one generate_sbox call, then one
   validate_sbox call on the generated table or on a changed copy of it. *)

\* Constants 0..MaxConstant are passed to generate_sbox, besides C_AES and 0xFF
MaxConstant == 3

Constants == (0..MaxConstant) \cup {C_AES, 255}

\* A matrix with two equal rows, and one with a zero row: neither is
\* invertible.
REPEATED_ROW_MATRIX == List(<<87, 87, 213, 234, 117, 186, 93, 174>>)

ZERO_ROW_MATRIX == List(<<87, 171, 213, 0, 117, 186, 93, 174>>)

Matrices ==
    {K44_MATRIX, K43_MATRIX, K45_MATRIX, AES_MATRIX, IDENTITY_MATRIX,
     K44_ROTATED, REPEATED_ROW_MATRIX, ZERO_ROW_MATRIX}

\* The 256-entry arrays given to validate_sbox after a generation: the
\* generated table, and the table with entry 0 or entry 255 overwritten.
Arrays(sbox) ==
    {sbox} \cup {[sbox EXCEPT ![i] = v] : i \in {0, 255}, v \in {0, sbox[1]}}

InitSBox ==
    /\ gf = GenerateTables
    /\ Idle({"gf_call", "gen", "report", "cipher", "block_call", "enc", "dec",
             "failures",
             "inverse_call",
             "analysis",
             "server",
             "handler",
             "clock",
             "rate_limiter",
             "limiter_call",
             "granted",
             "cache_call"})

GenerateSbox ==
    /\ ~gen.made
    /\ \E matrix \in Matrices, constant \in Constants :
          gen' = [made |-> TRUE, matrix |-> matrix, constant |-> constant,
                  sbox |-> generate_sbox(SBoxGenerator, matrix, constant)]
    /\ UNCHANGED <<gf, gf_call, report, cipher, block_call, enc, dec, failures,
        inverse_call, analysis, server, handler, clock, rate_limiter,
        limiter_call, granted, cache_call>>

ValidateSbox ==
    /\ gen.made
    /\ ~report.made
    /\ inverse_call = NoCall
    /\ \E sbox \in Arrays(gen.sbox) :
          report' = [made |-> TRUE, sbox |-> sbox, result |-> validate_sbox(sbox)]
    /\ UNCHANGED <<gf, gf_call, gen, cipher, block_call, enc, dec, failures,
        inverse_call, analysis, server, handler, clock, rate_limiter,
        limiter_call, granted, cache_call>>

GenerateInverseSbox ==
    /\ gen.made
    /\ ~report.made
    /\ inverse_call = NoCall
    /\ \E sbox \in Arrays(gen.sbox) :
          inverse_call' = [op |-> "generate_inverse_sbox", sbox |-> sbox,
                           result |-> generate_inverse_sbox(SBoxGenerator, sbox)]
    /\ UNCHANGED <<gf, gf_call, gen, report, cipher, block_call, enc, dec,
                   failures, analysis, server, handler, clock,
        rate_limiter, limiter_call, granted, cache_call>>

NextSBox == GenerateSbox \/ ValidateSbox \/ GenerateInverseSbox

SpecSBox == InitSBox /\ [][NextSBox]_vars

-----------------------------------------------------------------------------
(* The cipher: create_cipher, then either one block call, or one encrypt
   call followed by one decrypt call. *)

\* Plaintexts of 0..MaxPlainLen bytes are encrypted
MaxPlainLen == 17

\* The plaintext of n bytes.  Its 16th byte is 0x01 when n = 16 and 0x03
\* when n > 16, so that the ciphertext cut after its first block decrypts to
\* data that ends in a valid padding (n = 16) or in an invalid one (n > 16).
Text(n) ==
    Eager([i \in 1..n |->
        IF i = 16 THEN (IF n = 16 THEN 1 ELSE 3) ELSE (11 * i + n) % 256])

Plaintexts == {Text(n) : n \in 0..MaxPlainLen}

\* FIPS-197 appendix C.1: key, plaintext block and ciphertext block
KatKey == Eager([i \in 1..16 |-> i - 1])

KatPlaintext == Eager([i \in 1..16 |-> 17 * (i - 1)])

KatCiphertext ==
    <<105, 196, 224, 216, 106, 123, 4, 48, 216, 205, 183, 128, 112, 180, 197, 90>>

OtherKey == Eager([i \in 1..16 |-> 255 - i])

ShortKey == Eager([i \in 1..15 |-> i])

ValidKeys == {KatKey, OtherKey}

Keys == ValidKeys \cup {ShortKey}

GivenIv == Eager([i \in 1..16 |-> (16 * i) % 256])

ShortIv == Eager([i \in 1..15 |-> i])

\* What os.urandom(16) may return
Urandom == {Eager([i \in 1..16 |-> (7 * i + 160) % 256])}

\* (plaintext, key, iv) of the encrypt calls: every plaintext with every
\* valid key and IV, and some calls with a key or an IV of the wrong length.
EncryptInputs ==
    (Plaintexts \X ValidKeys \X {GivenIv, None})
        \cup ({Text(0), Text(16)} \X {ShortKey} \X {GivenIv, None})
        \cup ({Text(1)} \X Keys \X {ShortIv})

\* Custom S-boxes: a permutation, a table that is not one, a short table.
CustomBijective == Eager([x \in 0..255 |-> (7 * x + 3) % 256])

CustomNotBijective == Eager([x \in 0..255 |-> (6 * x + 3) % 256])

CustomShort == Eager([x \in 0..254 |-> x])

CipherInputs ==
    ({"k44", "aes", "AES", "des"} \X {NoSbox})
        \cup ({"custom"} \X {NoSbox, CustomBijective, CustomNotBijective,
                             CustomShort})

\* Lengths a ciphertext is cut to before it is handed to decrypt
CutLengths == {0, 16, 31, 32, 40}

\* A ciphertext that no encrypt call made
Stale(n) == Eager([i \in 1..n |-> (3 * i) % 256])

\* The ciphertexts handed to decrypt after the encrypt call e: what it
\* returned, whole or cut; after a failed call, bytes from elsewhere.
Ciphertexts(e) ==
    IF e.result.ok
    THEN {Slice(e.result.value, 0, n) :
             n \in CutLengths \cup {Len(e.result.value)}}
    ELSE {Stale(31), Stale(40)}

\* data ends in a valid PKCS7 padding
ValidPadding(data) ==
    /\ Len(data) > 0
    /\ LET p == data[Len(data)]
       IN  /\ p \in 1..16
           /\ Len(data) >= p
           /\ \A k \in (Len(data) - p + 1)..Len(data) : data[k] = p

\* The one failure cause of an encrypt or decrypt call, "none" when it has
\* none or more than one: key length other than 16 bytes, ciphertext shorter
\* than 32 bytes, a body that is not a whole number of blocks, invalid padding.
EncryptCause(key, iv) ==
    IF Len(key) # 16 /\ (iv = None \/ Len(iv) = 16) THEN "key length" ELSE "none"

DecryptCause(ciphertext, key, cbc) ==
    IF Len(key) # 16
    THEN IF Len(ciphertext) >= 32 /\ Len(ciphertext) % 16 = 0
         THEN "key length" ELSE "none"
    ELSE IF Len(ciphertext) < 32 THEN "ciphertext too short"
    ELSE IF Len(ciphertext) % 16 # 0 THEN "malformed structure"
    ELSE IF cbc.ok /\ ~ValidPadding(cbc.value) THEN "invalid padding"
    ELSE "none"

\* How a call ended: the kind of the exception, or "bytes" when it returned.
Ending(result) == IF result.ok THEN "bytes" ELSE result.kind

\* failures after a call that had this cause and this result
Noted(cause, result) ==
    IF cause = "none" THEN failures
    ELSE (cause :> Ending(result)) @@ failures

InitCipher ==
    /\ gf = GenerateTables
    /\ Idle({"gf_call", "gen", "report", "cipher", "block_call", "enc", "dec",
             "failures",
             "inverse_call",
             "analysis",
             "server",
             "handler",
             "clock",
             "rate_limiter",
             "limiter_call",
             "granted",
             "cache_call"})

CreateCipher ==
    /\ ~cipher.made
    /\ \E c \in CipherInputs :
          cipher' = [made |-> TRUE, result |-> create_cipher(c[1], c[2])]
    /\ UNCHANGED <<gf, gf_call, gen, report, block_call, enc, dec, failures,
        inverse_call, analysis, server, handler, clock, rate_limiter,
        limiter_call, granted, cache_call>>

\* The cipher is built and no method of it has been called.
Fresh ==
    /\ cipher.made
    /\ cipher.result.ok
    /\ block_call = NoCall
    /\ enc = NoCall

EncryptBlock ==
    /\ Fresh
    /\ \E plaintext \in {KatPlaintext, ShortIv}, key \in {KatKey, ShortKey} :
          block_call' =
              [op |-> "encrypt_block", block |-> plaintext, key |-> key,
               result |-> encrypt_block(cipher.result.value, plaintext, key)]
    /\ UNCHANGED <<gf, gf_call, gen, report, cipher, enc, dec, failures, inverse_call,
        analysis, server, handler, clock, rate_limiter, limiter_call,
        granted, cache_call>>

DecryptBlock ==
    /\ Fresh
    /\ \E ciphertext \in {KatCiphertext, ShortIv}, key \in {KatKey, ShortKey} :
          block_call' =
              [op |-> "decrypt_block", block |-> ciphertext, key |-> key,
               result |-> decrypt_block(cipher.result.value, ciphertext, key)]
    /\ UNCHANGED <<gf, gf_call, gen, report, cipher, enc, dec, failures, inverse_call,
        analysis, server, handler, clock, rate_limiter, limiter_call,
        granted, cache_call>>

Encrypt ==
    /\ Fresh
    /\ \E e \in EncryptInputs, urandom \in Urandom :
       \E result \in {encrypt(cipher.result.value, e[1], e[2], e[3], urandom)} :
          /\ enc' = [op |-> "encrypt", plaintext |-> e[1], key |-> e[2],
                     iv |-> e[3], result |-> result]
          /\ failures' = Noted(EncryptCause(e[2], e[3]), result)
    /\ UNCHANGED <<gf, gf_call, gen, report, cipher, block_call, dec, inverse_call,
        analysis, server, handler, clock, rate_limiter, limiter_call,
        granted, cache_call>>

Decrypt ==
    /\ enc # NoCall
    /\ dec = NoCall
    /\ \E ciphertext \in Ciphertexts(enc), key \in Keys :
       \E cbc \in {decrypt_cbc(cipher.result.value, ciphertext, key)} :
       \E result \in {decrypt_unpad(cbc)} :
          /\ dec' = [op |-> "decrypt", ciphertext |-> ciphertext, key |-> key,
                     cbc |-> cbc, result |-> result]
          /\ failures' = Noted(DecryptCause(ciphertext, key, cbc), result)
    /\ UNCHANGED <<gf, gf_call, gen, report, cipher, block_call, enc, inverse_call,
        analysis, server, handler, clock, rate_limiter, limiter_call,
        granted, cache_call>>

KeyExpansion ==
    /\ Fresh
    /\ \E key \in Keys :
          block_call' = [op |-> "key_expansion", key |-> key,
                         result |-> key_expansion(cipher.result.value, key)]
    /\ UNCHANGED <<gf, gf_call, gen, report, cipher, enc, dec, failures, inverse_call,
        analysis, server, handler, clock, rate_limiter, limiter_call,
        granted, cache_call>>

NextCipher ==
    \/ CreateCipher \/ EncryptBlock \/ DecryptBlock \/ Encrypt \/ Decrypt
    \/ KeyExpansion

SpecCipher == InitCipher /\ [][NextCipher]_vars

-----------------------------------------------------------------------------
(* Properties of galois_field.py, checked under SpecGF *)

\* C4: for every a in 1..255, multiply(a, inverse(a)) is 1, and inverse(0)
\* is 0.  Every call of inverse returns 0 for 0 and otherwise a value whose
\* product with the argument is 1, and every call multiply(a, inverse(a)) with
\* a # 0 returns 1.
InverseIsMultiplicativeInverse ==
    /\ gf_call.op = "inverse" =>
          IF gf_call.a = 0 THEN gf_call.result = 0
          ELSE multiply(gf, gf_call.a, gf_call.result) = 1
    /\ (/\ gf_call.op = "multiply"
        /\ gf_call.a # 0
        /\ gf_call.b = inverse(gf, gf_call.a)) => gf_call.result = 1

\* multiply(0x53, 0xCA) was called, 0xCA being inverse(0x53), and returned 1.
InverseMultiplied ==
    /\ gf_call.op = "multiply"
    /\ gf_call.a = 83
    /\ gf_call.b = 202
    /\ inverse(gf, 83) = 202
    /\ gf_call.result = 1

RECURSIVE RepeatedMultiply(_, _, _)
\* a multiplied by itself with GF256.multiply: the product of n factors a,
\* n >= 1
RepeatedMultiply(self, a, n) ==
    IF n <= 1 THEN a ELSE multiply(self, RepeatedMultiply(self, a, n - 1), a)

\* C28: power(a, 0) returns 1 for every a in 0..255, a = 0 included; for
\* n >= 1, power(0, n) = 0 and power(a, n), a # 0, is the product of n
\* factors a under GF256.multiply.
PowerIsRepeatedMultiply ==
    gf_call.op = "power" =>
        IF gf_call.n = 0 THEN gf_call.result = 1
        ELSE IF gf_call.a = 0 THEN gf_call.result = 0
        ELSE gf_call.result = RepeatedMultiply(gf, gf_call.a, gf_call.n)

\* The same with power(0, 0) left out: what power does for every other
\* argument
PowerIsRepeatedMultiplyButAtZero ==
    (gf_call.op = "power" /\ ~(gf_call.a = 0 /\ gf_call.n = 0)) =>
        PowerIsRepeatedMultiply

-----------------------------------------------------------------------------
(* Properties of sbox_generator.py and sbox_validations.py, checked under
   SpecSBox *)

\* The S-box of FIPS-197, Figure 7, row by row.
FIPS197_SBOX == List(<<
         99, 124, 119, 123, 242, 107, 111, 197,  48,   1, 103,  43, 254, 215, 171, 118,
        202, 130, 201, 125, 250,  89,  71, 240, 173, 212, 162, 175, 156, 164, 114, 192,
        183, 253, 147,  38,  54,  63, 247, 204,  52, 165, 229, 241, 113, 216,  49,  21,
          4, 199,  35, 195,  24, 150,   5, 154,   7,  18, 128, 226, 235,  39, 178, 117,
          9, 131,  44,  26,  27, 110,  90, 160,  82,  59, 214, 179,  41, 227,  47, 132,
         83, 209,   0, 237,  32, 252, 177,  91, 106, 203, 190,  57,  74,  76,  88, 207,
        208, 239, 170, 251,  67,  77,  51, 133,  69, 249,   2, 127,  80,  60, 159, 168,
         81, 163,  64, 143, 146, 157,  56, 245, 188, 182, 218,  33,  16, 255, 243, 210,
        205,  12,  19, 236,  95, 151,  68,  23, 196, 167, 126,  61, 100,  93,  25, 115,
         96, 129,  79, 220,  34,  42, 144, 136,  70, 238, 184,  20, 222,  94,  11, 219,
        224,  50,  58,  10,  73,   6,  36,  92, 194, 211, 172,  98, 145, 149, 228, 121,
        231, 200,  55, 109, 141, 213,  78, 169, 108,  86, 244, 234, 101, 122, 174,   8,
        186, 120,  37,  46,  28, 166, 180, 198, 232, 221, 116,  31,  75, 189, 139, 138,
        112,  62, 181, 102,  72,   3, 246,  14,  97,  53,  87, 185, 134, 193,  29, 158,
        225, 248, 152,  17, 105, 217, 142, 148, 155,  30, 135, 233, 206,  85,  40, 223,
        140, 161, 137,  13, 191, 230,  66, 104,  65, 153,  45,  15, 176,  84, 187,  22>>)

\* generate_sbox was called with AES_MATRIX and 0x63.
AesSboxGenerated ==
    gen.made /\ gen.matrix = AES_MATRIX /\ gen.constant = C_AES

Invertible(matrix) ==
    \A vector \in 1..255 : matrix_vector_mult_gf2(matrix, vector) # 0

\* The matrices of Matrices that are invertible
InvertibleMatrices == {matrix \in Matrices : Invertible(matrix)}

\* The values of a 256-entry array are pairwise distinct.
Permutation(sbox) == Cardinality({sbox[x] : x \in 0..255}) = 256

\* C5: for every matrix that is invertible as a GF(2) linear map and every
\* constant c, generate_sbox(matrix, c) is a permutation of 0..255.
InvertibleMatrixGivesPermutation ==
    (gen.made /\ gen.matrix \in InvertibleMatrices) => Permutation(gen.sbox)

\* An S-box was generated from K44_MATRIX, which is invertible, and the
\* constant 0xFF, and it is a permutation.
K44PermutationGenerated ==
    /\ gen.made
    /\ gen.matrix = K44_MATRIX
    /\ K44_MATRIX \in InvertibleMatrices
    /\ AES_MATRIX \in InvertibleMatrices
    /\ gen.constant = 255
    /\ Permutation(gen.sbox)

\* C6: for every 8-row matrix M, invertible or not, and every constant c,
\* generate_sbox(M, c)[0] = c.
SboxAtZeroIsConstant == gen.made => gen.sbox[0] = gen.constant

\* An S-box was generated from a matrix that is not invertible and the
\* constant 0xFF, and its entry at 0 is 0xFF.
SingularSboxGenerated ==
    /\ gen.made
    /\ gen.matrix = ZERO_ROW_MATRIX
    /\ ZERO_ROW_MATRIX \notin InvertibleMatrices
    /\ gen.constant = 255
    /\ gen.sbox[0] = 255

\* The number of entries of a 256-entry array that hold v
Occurrences(sbox, v) == Cardinality({i \in 0..255 : sbox[i] = v})

\* The number of entries of a 256-entry array in which the bit is set
EntriesWithBit(sbox, bit) ==
    Cardinality({i \in 0..255 : (sbox[i] \div (2 ^ bit)) % 2 = 1})

\* The set of the entries of a sequence
Entries(seq) == {seq[k] : k \in 1..Len(seq)}

\* C7: for every 256-entry array of bytes, validate_sbox reports is_bijective
\* true exactly when the 256 values are pairwise distinct (duplicate_values
\* and missing_values are then empty, and otherwise list every repeated value
\* with its count, once, and every absent value of 0..255, once), is_balanced
\* true exactly when each of the 8 bit positions is set in exactly 128
\* entries, and is_valid equal to is_bijective /\ is_balanced.
ValidateSboxReport ==
    report.made =>
        LET sbox     == report.sbox
            result   == report.result
            repeated == {v \in 0..255 : Occurrences(sbox, v) > 1}
            absent   == {v \in 0..255 : Occurrences(sbox, v) = 0}
        IN  /\ result.is_bijective = Permutation(sbox)
            /\ Permutation(sbox) =>
                  result.duplicate_values = <<>> /\ result.missing_values = <<>>
            /\ Entries(result.duplicate_values) =
                  {[value |-> v, count |-> Occurrences(sbox, v)] : v \in repeated}
            /\ Len(result.duplicate_values) = Cardinality(repeated)
            /\ Entries(result.missing_values) = absent
            /\ Len(result.missing_values) = Cardinality(absent)
            /\ result.is_balanced =
                  (\A bit \in 0..7 : EntriesWithBit(sbox, bit) = 128)
            /\ result.is_valid = (result.is_bijective /\ result.is_balanced)

\* validate_sbox was given an array that is balanced and not a permutation,
\* and reported it balanced, not bijective and not valid, with the values it
\* repeats and the values it lacks.
BalancedNotBijectiveReported ==
    /\ report.made
    /\ ~Permutation(report.sbox)
    /\ report.result.is_balanced
    /\ ~report.result.is_bijective
    /\ ~report.result.is_valid
    /\ Len(report.result.duplicate_values) > 0
    /\ Len(report.result.missing_values) > 0

-----------------------------------------------------------------------------
(* Properties of aes_cipher.py, checked under SpecCipher *)

\* C1: for every 16-byte key, every 16-byte IV, every plaintext of any length
\* (the empty one included) and every cipher that create_cipher builds for
\* 'k44', 'aes' or a bijective custom S-box, decrypt(encrypt(plaintext, key,
\* iv), key) returns exactly plaintext.
RoundTrip ==
    (/\ dec.op = "decrypt"
     /\ Permutation(cipher.result.value.sbox)
     /\ enc.result.ok
     /\ dec.ciphertext = enc.result.value
     /\ dec.key = enc.key) => dec.result = Ok(enc.plaintext)

\* A cipher with a bijective custom S-box encrypted the empty plaintext under
\* an IV drawn by os.urandom, and decrypt returned the empty plaintext.
EmptyPlaintextRoundTrip ==
    /\ dec.op = "decrypt"
    /\ cipher.result.value.sbox = CustomBijective
    /\ Permutation(CustomBijective)
    /\ enc.plaintext = <<>>
    /\ enc.iv = None
    /\ enc.result.ok
    /\ dec.ciphertext = enc.result.value
    /\ dec.key = enc.key
    /\ dec.result = Ok(<<>>)

\* C2: encrypt_block with the standard AES S-box, the key
\* 000102030405060708090a0b0c0d0e0f and the plaintext block
\* 00112233445566778899aabbccddeeff returns the block
\* 69c4e0d86a7b0430d8cdb78070b4c55a.
KnownAnswerTest ==
    (/\ block_call.op = "encrypt_block"
     /\ cipher.result.value.sbox = FIPS197_SBOX
     /\ block_call.key = KatKey
     /\ block_call.block = KatPlaintext) => block_call.result = Ok(KatCiphertext)

\* encrypt_block of the cipher with the standard AES S-box was called with
\* the key and the plaintext block of the known-answer test.
KnownAnswerEncrypted ==
    /\ block_call.op = "encrypt_block"
    /\ cipher.result.value.sbox = FIPS197_SBOX
    /\ block_call.key = KatKey
    /\ block_call.block = KatPlaintext
    /\ block_call.result.ok

\* C8: decrypt returns an error, and no plaintext, for every input shorter
\* than 32 bytes, whatever the key: it raises ValueError("Ciphertext too
\* short").
ShortCiphertextRejected ==
    (dec.op = "decrypt" /\ Len(dec.ciphertext) < 32) =>
        /\ ~dec.result.ok
        /\ dec.result = Raise("ValueError", "Ciphertext too short")

\* decrypt was given 31 bytes and a key of 15 bytes, and raised.
ShortCiphertextShortKey ==
    /\ dec.op = "decrypt"
    /\ Len(dec.ciphertext) = 31
    /\ Len(dec.key) = 15
    /\ ~dec.result.ok

\* The messages of the exceptions _pkcs7_unpad raises on data that is not
\* empty
PaddingMessages ==
    {"Invalid padding", "Data too short for padding", "Invalid padding bytes"}

\* C9: when the last byte p of the CBC-decrypted data is outside 1..16, or
\* the data is shorter than p bytes, or any of the last p bytes differs from
\* p, decrypt raises a padding error and returns no plaintext; otherwise it
\* returns the data with exactly its last p bytes removed.
PaddingStrictlyValidated ==
    (dec.op = "decrypt" /\ dec.cbc.ok) =>
        LET data == dec.cbc.value
            p    == data[Len(data)]
        IN  IF \/ p \notin 1..16
               \/ Len(data) < p
               \/ \E k \in (Len(data) - p + 1)..Len(data) : data[k] # p
            THEN /\ ~dec.result.ok
                 /\ dec.result.kind = "ValueError"
                 /\ dec.result.msg \in PaddingMessages
            ELSE dec.result = Ok(SubSeq(data, 1, Len(data) - p))

\* decrypt's CBC-decrypted data ended in a byte p of 1..16 and in fewer than p
\* bytes equal to p, and decrypt raised the padding error.
PaddingBytesRejected ==
    /\ dec.op = "decrypt"
    /\ dec.cbc.ok
    /\ dec.cbc.value[Len(dec.cbc.value)] \in 1..16
    /\ dec.result = Raise("ValueError", "Invalid padding bytes")

\* C10: the four failure causes of the cipher (key length other than 16
\* bytes, ciphertext shorter than 32 bytes, body not a whole number of 16-byte
\* blocks, invalid PKCS7 padding) each end in an error whose kind is distinct
\* from the kinds of the other three, and none of them returns a byte buffer.
DistinctErrorKinds ==
    /\ \A cause \in DOMAIN failures : failures[cause] # "bytes"
    /\ \A c1 \in DOMAIN failures, c2 \in DOMAIN failures :
          c1 # c2 => failures[c1] # failures[c2]

\* C11: building a cipher from a caller-supplied 256-entry S-box that is not
\* a permutation fails; create_cipher never returns a cipher whose S-box is
\* not a permutation, that is, whose inverse table was built by overwriting
\* collisions.
NonBijectiveSboxRejected ==
    (cipher.made /\ cipher.result.ok) =>
        /\ Permutation(cipher.result.value.sbox)
        /\ \A x \in 0..255 :
              cipher.result.value.inv_sbox[cipher.result.value.sbox[x]] = x

-----------------------------------------------------------------------------
(* generate_sbox on a matrix or a constant outside the data model, checked
   under SpecUnchecked *)

\* A call of generate_sbox with its exception: affine_transform reads
\* matrix[i] for i in range(8), which raises IndexError, for the first x, when
\* the matrix has fewer than 8 rows.
generate_sbox_call(self, matrix, constant) ==
    IF LenList(matrix) < 8
    THEN Raise("IndexError", "list index out of range")
    ELSE Ok(generate_sbox(self, matrix, constant))

MaxBadConstant == 271

\* Constants that are not bytes
BadConstants == 256..MaxBadConstant

\* K44_MATRIX and a ninth row
NINE_ROW_MATRIX == List(<<87, 171, 213, 234, 117, 186, 93, 174, 17>>)

\* K44_MATRIX without its last row
SEVEN_ROW_MATRIX == List(<<87, 171, 213, 234, 117, 186, 93>>)

\* K44_MATRIX with 0x157 as row 0
WIDE_ROW_MATRIX == List(<<343, 171, 213, 234, 117, 186, 93, 174>>)

\* The matrix without rows
EMPTY_MATRIX == List(<<>>)

MalformedMatrices ==
    {NINE_ROW_MATRIX, SEVEN_ROW_MATRIX, WIDE_ROW_MATRIX, EMPTY_MATRIX}

\* The matrix has exactly 8 rows, each in 0..255, and the constant is in
\* 0..255.
WellFormed(matrix, constant) ==
    /\ DOMAIN matrix = 0..7
    /\ \A i \in 0..7 : matrix[i] \in 0..255
    /\ constant \in 0..255

UncheckedInputs ==
    (MalformedMatrices \X (Constants \cup BadConstants))
        \cup ({K44_MATRIX, AES_MATRIX} \X BadConstants)

InitUnchecked ==
    /\ gf = GenerateTables
    /\ Idle({"gf_call", "gen", "report", "cipher", "block_call", "enc", "dec",
             "failures",
             "inverse_call",
             "analysis",
             "server",
             "handler",
             "clock",
             "rate_limiter",
             "limiter_call",
             "granted",
             "cache_call"})

GenerateSboxUnchecked ==
    /\ ~gen.made
    /\ \E input \in UncheckedInputs :
          gen' = [made |-> TRUE, matrix |-> input[1], constant |-> input[2],
                  result |-> generate_sbox_call(SBoxGenerator, input[1],
                                                input[2])]
    /\ UNCHANGED <<gf, gf_call, report, cipher, block_call, enc, dec, failures,
        inverse_call, analysis, server, handler, clock, rate_limiter,
        limiter_call, granted, cache_call>>

NextUnchecked == GenerateSboxUnchecked

SpecUnchecked == InitUnchecked /\ [][NextUnchecked]_vars

\* C12: generate_sbox called with a matrix that does not have exactly 8 rows
\* each in 0..255, or with a constant outside 0..255, fails and returns no
\* S-box.
MalformedInputRejected ==
    (gen.made /\ ~WellFormed(gen.matrix, gen.constant)) => ~gen.result.ok

-----------------------------------------------------------------------------
(* Properties of the key schedule, checked under SpecCipher *)

\* The ciphers create_cipher builds from CipherInputs
Instances ==
    {create_cipher(c[1], c[2]).value :
        c \in {d \in CipherInputs : create_cipher(d[1], d[2]).ok}}

\* Round key 10 of the key 000102030405060708090a0b0c0d0e0f in FIPS-197,
\* Appendix C.1: 13111d7fe3944a17f307a78b4d2b30c5.
KatLastRoundKey ==
    List(<<19, 17, 29, 127, 227, 148, 74, 23, 243, 7, 167, 139, 77, 43, 48, 197>>)

\* C13: for every 16-byte key, the 11 round keys _key_expansion produces are
\* the same for any two AESCipher instances, whatever their S-box and inverse
\* S-box; the schedule uses the standard AES S-box only (it is the FIPS-197
\* schedule), round key 0 is the key, and each round key has 16 bytes.
KeyScheduleIgnoresSbox ==
    (block_call.op = "key_expansion" /\ Len(block_call.key) = 16) =>
        /\ block_call.result.ok
        /\ \A other \in Instances :
              key_expansion(other, block_call.key) = block_call.result
        /\ DOMAIN block_call.result.value = 0..10
        /\ \A r \in 0..10 : DOMAIN block_call.result.value[r] = 0..15
        /\ \A k \in 0..15 :
              block_call.result.value[0][k] = block_call.key[k + 1]
        /\ block_call.key = KatKey =>
              block_call.result.value[10] = KatLastRoundKey

\* The cipher with the custom bijective S-box expanded the key of FIPS-197,
\* Appendix C.1, and more than one instance exists to compare it with.
CustomCipherExpandedKey ==
    /\ block_call.op = "key_expansion"
    /\ cipher.result.value.sbox = CustomBijective
    /\ block_call.key = KatKey
    /\ block_call.result.ok
    /\ Cardinality(Instances) > 2

-----------------------------------------------------------------------------
(* Properties of generate_inverse_sbox, checked under SpecSBox *)

\* C14: for every bijective 256-entry S-box s, inv = generate_inverse_sbox(s)
\* satisfies inv[s[x]] = x for every x in 0..255 and s[inv[y]] = y for every
\* y in 0..255.
InverseSboxInverts ==
    (inverse_call.op = "generate_inverse_sbox"
        /\ Permutation(inverse_call.sbox)) =>
        /\ DOMAIN inverse_call.result = 0..255
        /\ \A x \in 0..255 : inverse_call.result[inverse_call.sbox[x]] = x
        /\ \A y \in 0..255 : inverse_call.sbox[inverse_call.result[y]] = y

\* generate_inverse_sbox was given the K44 S-box, a permutation that is not
\* its own inverse.
K44SboxInverted ==
    /\ inverse_call.op = "generate_inverse_sbox"
    /\ inverse_call.sbox = generate_k44_sbox(SBoxGenerator)
    /\ Permutation(inverse_call.sbox)
    /\ inverse_call.result # inverse_call.sbox

-----------------------------------------------------------------------------
(* cryptographic_tests.py: calculate_algebraic_degree *)

\* The pass with "anf[i + h] |= anf[i]"
AnfPassOr(anf, h, n) ==
    Eager([k \in 0..(n - 1) |->
        IF And(k, h) # 0 THEN Or(anf[k], anf[k - h]) ELSE anf[k]])

\* One pass "for i in range(n): if (i & h) == 0: anf[i + h] ^= anf[i]".  The
\* entries the pass reads have bit h clear and the entries it writes have bit
\* h set, so every read sees the value from before the pass.
AnfPass(anf, h, n) ==
    Eager([k \in 0..(n - 1) |->
        IF And(k, h) # 0
        THEN Xor(anf[k], anf[k - h])
        ELSE anf[k]])

RECURSIVE AnfLoop(_, _, _)
\* anf_transform: "while h < n: ... h <<= 1"
AnfLoop(anf, h, n) ==
    IF h < n THEN AnfLoop(AnfPass(anf, h, n), Shl(h, 1), n) ELSE anf

\* calculate_algebraic_degree.anf_transform(truth_table)
anf_transform(truth_table) ==
    AnfLoop(truth_table, 1, LenList(truth_table))

\* [(sbox[x] >> bit_pos) & 1 for x in range(256)]
TruthTable(sbox, bit_pos) ==
    Eager([x \in 0..255 |-> And(Shr(sbox[x], bit_pos), 1)])

-----------------------------------------------------------------------------
(* The analyzer: calls of the functions of cryptographic_tests.py, which are
   pure.  Checked under SpecAnalyzer. *)

\* Truth tables of up to MaxTableBits variables are all enumerated.
MaxTableBits == 3

\* The truth tables given to anf_transform: every 0/1 table of length 1, 2,
\* ..., 2^MaxTableBits, and the 8 component functions of the K44 S-box and of
\* the AES S-box, of length 256.
TruthTables ==
    UNION {[0..(2 ^ n - 1) -> {0, 1}] : n \in 0..MaxTableBits}
        \cup {TruthTable(sbox, bit_pos) :
                sbox \in {generate_k44_sbox(SBoxGenerator),
                          generate_aes_sbox(SBoxGenerator)},
                bit_pos \in 0..7}

InitAnalyzer ==
    /\ gf = GenerateTables
    /\ Idle({"gf_call", "gen", "report", "cipher", "block_call", "enc", "dec",
             "failures", "inverse_call", "analysis",
             "server",
             "handler",
             "clock",
             "rate_limiter",
             "limiter_call",
             "granted",
             "cache_call"})

AnfTransform ==
    /\ analysis = NoCall
    /\ \E truth_table \in TruthTables :
          analysis' = [op |-> "anf_transform", input |-> truth_table,
                       result |-> anf_transform(truth_table)]
    /\ UNCHANGED <<gf, gf_call, gen, report, cipher, block_call, enc, dec,
                   failures, inverse_call, server, handler, clock,
        rate_limiter, limiter_call, granted, cache_call>>

\* anf_transform applied to what anf_transform returned
AnfTransformAgain ==
    /\ analysis.op = "anf_transform"
    /\ analysis' = [op |-> "anf_transform twice", input |-> analysis.input,
                    first |-> analysis.result,
                    result |-> anf_transform(analysis.result)]
    /\ UNCHANGED <<gf, gf_call, gen, report, cipher, block_call, enc, dec,
                   failures, inverse_call, server, handler, clock,
        rate_limiter, limiter_call, granted, cache_call>>


\* C15: for every truth table of 0/1 values whose length is a power of two,
\* applying anf_transform twice returns the original table.
AnfTransformIsInvolution ==
    analysis.op = "anf_transform twice" => analysis.result = analysis.input

\* anf_transform was applied twice to a table of length 256, and the first
\* application changed the table.
AnfTwiceOn256 ==
    /\ analysis.op = "anf_transform twice"
    /\ LenList(analysis.input) = 256
    /\ analysis.first # analysis.input
    /\ analysis.result = analysis.input

-----------------------------------------------------------------------------
(* cryptographic_tests.py: calculate_cycle_structure *)

RECURSIVE WalkLoopUnmarked(_, _, _)
\* The while loop without "visited[curr] = True"
WalkLoopUnmarked(sbox, w, fuel) ==
    IF w.visited[w.curr] \/ fuel = 0 THEN w
    ELSE IF fuel = 1
    THEN [visited |-> w.visited, curr |-> sbox[w.curr], length |-> w.length + 1]
    ELSE WalkLoopUnmarked(sbox, WalkLoopUnmarked(sbox, w, fuel \div 2),
                          fuel - fuel \div 2)

RECURSIVE WalkLoop(_, _, _)
\* "while not visited[curr]: visited[curr] = True; curr = sbox[curr];
\* length += 1", for at most fuel iterations; w is [visited, curr, length].
\* Each iteration visits an element not visited before, so the loop ends
\* within 256 iterations.
WalkLoop(sbox, w, fuel) ==
    IF w.visited[w.curr] \/ fuel = 0 THEN w
    ELSE IF fuel = 1
    THEN [visited |-> [w.visited EXCEPT ![w.curr] = TRUE],
          curr    |-> sbox[w.curr],
          length  |-> w.length + 1]
    ELSE WalkLoop(sbox, WalkLoop(sbox, w, fuel \div 2), fuel - fuel \div 2)

\* What the walk from st.i adds: st is [i, visited, cycles, ended], w the
\* outcome of the while loop; "cycles.append(length)".  ended records that
\* every while loop so far was left because its condition was false.
CycleAppend(st, w) ==
    [i |-> st.i + 1, visited |-> w.visited,
     cycles |-> Append(st.cycles, w.length),
     ended |-> st.ended /\ w.visited[w.curr]]

\* The body of "for i in range(256)"
CycleStep(sbox, st) ==
    IF st.visited[st.i] THEN [st EXCEPT !.i = @ + 1]
    ELSE CycleAppend(st,
            WalkLoop(sbox,
                     [visited |-> st.visited, curr |-> st.i, length |-> 0],
                     256))

RECURSIVE CycleLoop(_, _, _)
\* "for i in range(256)", from st.i up to hi
CycleLoop(sbox, st, hi) ==
    IF st.i >= hi THEN st
    ELSE IF st.i + 1 = hi THEN CycleStep(sbox, st)
    ELSE CycleLoop(sbox, CycleLoop(sbox, st, (st.i + hi) \div 2), hi)

\* min(cycles)
MinOf(cycles) == CHOOSE c \in {cycles[k] : k \in 1..Len(cycles)} :
                    \A k \in 1..Len(cycles) : c <= cycles[k]

\* fixed_points with "if c == 2"
FixedPointsOfTwo(cycles) == Cardinality({k \in 1..Len(cycles) : cycles[k] = 2})

\* sum(1 for c in cycles if c == 1)
FixedPoints(cycles) == Cardinality({k \in 1..Len(cycles) : cycles[k] = 1})

\* The dictionary calculate_cycle_structure returns, and with it the local
\* list cycles at the return.
CycleReport(cycles) ==
    [count        |-> Len(cycles),
     max_length   |-> IF Len(cycles) > 0
                      THEN CHOOSE c \in {cycles[k] : k \in 1..Len(cycles)} :
                              \A k \in 1..Len(cycles) : c >= cycles[k]
                      ELSE 0,
     min_length   |-> IF Len(cycles) > 0 THEN MinOf(cycles) ELSE 0,
     fixed_points |-> FixedPoints(cycles),
     cycles       |-> cycles]

\* calculate_cycle_structure up to its return statement: the locals i,
\* visited and cycles after "for i in range(256)"
CycleRun(sbox) ==
    CycleLoop(sbox,
        [i |-> 0, visited |-> Eager([x \in 0..255 |-> FALSE]), cycles |-> <<>>,
         ended |-> TRUE],
        256)

\* calculate_cycle_structure(sbox)
calculate_cycle_structure(sbox) == CycleReport(CycleRun(sbox).cycles)

\* The permutations of 0..255 given to calculate_cycle_structure: three
\* generated S-boxes, the identity (256 fixed points), x -> 7x + 3 (four
\* cycles of 64), x -> x + 1 (one cycle of 256) and x -> x ^ 1 (128 cycles
\* of 2).
CyclePermutations ==
    {generate_k44_sbox(SBoxGenerator),
     generate_aes_sbox(SBoxGenerator),
     generate_sbox(SBoxGenerator, K45_MATRIX, C_AES),
     Eager([x \in 0..255 |-> x]),
     CustomBijective,
     Eager([x \in 0..255 |-> (x + 1) % 256]),
     Eager([x \in 0..255 |-> Xor(x, 1)])}

CycleStructure ==
    /\ analysis = NoCall
    /\ \E sbox \in CyclePermutations :
          analysis' = [op |-> "calculate_cycle_structure", input |-> sbox,
                       result |-> calculate_cycle_structure(sbox)]
    /\ UNCHANGED <<gf, gf_call, gen, report, cipher, block_call, enc, dec,
                   failures, inverse_call, server, handler, clock,
        rate_limiter, limiter_call, granted, cache_call>>

RECURSIVE SumRange(_, _, _)
\* seq[lo] + ... + seq[hi]
SumRange(seq, lo, hi) ==
    IF lo > hi THEN 0
    ELSE IF lo = hi THEN seq[lo]
    ELSE SumRange(seq, lo, (lo + hi) \div 2)
             + SumRange(seq, (lo + hi) \div 2 + 1, hi)

RECURSIVE Reached(_, _, _)
\* Started with iterate = p, set = {x} and k = 0: at step k, iterate is p composed
\* with itself 2^k times and set holds x and its first 2^k - 1 successors, so
\* the outcome is the orbit of x under a permutation p of 0..255.
Reached(iterate, set, k) ==
    IF k = 8 THEN set
    ELSE Reached(Eager([y \in 0..255 |-> iterate[iterate[y]]]),
                 set \cup {iterate[y] : y \in set}, k + 1)

\* For each x the orbit of x under the permutation
Orbits(sbox) == Eager([x \in 0..255 |-> Reached(sbox, {x}, 0)])

\* C16: for every permutation of 0..255 given to calculate_cycle_structure,
\* the lengths of the cycles it finds sum to exactly 256, each element
\* belongs to exactly one counted cycle (for every length, the cycles counted
\* with that length are the orbits of that size), and fixed_points equals the
\* number of x with S(x) = x.
CycleStructureCountsOrbits ==
    (analysis.op = "calculate_cycle_structure"
        /\ Permutation(analysis.input)) =>
        LET sbox   == analysis.input
            cycles == analysis.result.cycles
            orbit  == Orbits(sbox)
            orbits == {orbit[x] : x \in 0..255}
        IN  /\ SumRange(cycles, 1, Len(cycles)) = 256
            /\ analysis.result.count = Cardinality(orbits)
            /\ \A length \in 1..256 :
                  Cardinality({k \in 1..Len(cycles) : cycles[k] = length})
                      = Cardinality({o \in orbits : Cardinality(o) = length})
            /\ analysis.result.fixed_points =
                  Cardinality({x \in 0..255 : sbox[x] = x})

\* calculate_cycle_structure was given the K44 S-box and found its three
\* cycles, the longest of 252 elements, one of them a fixed point.
K44CyclesCounted ==
    /\ analysis.op = "calculate_cycle_structure"
    /\ analysis.input = generate_k44_sbox(SBoxGenerator)
    /\ analysis.result.count = 3
    /\ analysis.result.max_length = 252
    /\ analysis.result.min_length = 1
    /\ analysis.result.fixed_points = 1

-----------------------------------------------------------------------------
(* cryptographic_tests.py: the metrics.  A Python float that the code obtains
   by dividing two integers is the pair [num, den] of the two integers here:
   the quotient itself, before it is rounded to a float. *)

\* num / den
Ratio(num, den) == [num |-> num, den |-> den]

\* abs(s)
Abs(s) == IF s < 0 THEN 0 - s ELSE s

\* max of a non-empty set of integers
MaxIn(set) == CHOOSE m \in set : \A y \in set : m >= y

\* min of a non-empty set of integers
MinIn(set) == CHOOSE m \in set : \A y \in set : m <= y

\* A pass with "spectrum[j] = x - y; spectrum[j + h] = x + y"
WalshPassSwapped(spectrum, h, n) ==
    Eager([k \in 0..(n - 1) |->
        IF And(k, h) = 0
        THEN spectrum[k] - spectrum[k + h]
        ELSE spectrum[k - h] + spectrum[k]])

\* One pass of walsh_hadamard_transform, "for i in range(0, n, h * 2): for j
\* in range(i, i + h)": the pairs (j, j + h) are disjoint, so every pair
\* reads the values from before the pass.
WalshPass(spectrum, h, n) ==
    Eager([k \in 0..(n - 1) |->
        IF And(k, h) = 0
        THEN spectrum[k] + spectrum[k + h]
        ELSE spectrum[k - h] - spectrum[k]])

RECURSIVE WalshLoop(_, _, _)
\* walsh_hadamard_transform: "while h < n: ... h *= 2"
WalshLoop(spectrum, h, n) ==
    IF h < n THEN WalshLoop(WalshPass(spectrum, h, n), h * 2, n) ELSE spectrum

\* walsh_hadamard_transform(truth_table)
walsh_hadamard_transform(truth_table) ==
    WalshLoop(truth_table, 1, LenList(truth_table))

\* [1 - 2 * b for b in truth_table]
Bipolar(truth_table) ==
    Eager([x \in DOMAIN truth_table |-> 1 - 2 * truth_table[x]])

\* max(abs(s) for s in spectrum)
MaxWalsh(spectrum) == MaxIn({Abs(spectrum[k]) : k \in DOMAIN spectrum})

\* The nonlinearity with "nl = 128 - max_walsh"
NonlinearityOfBitUnhalved(sbox, bit_pos) ==
    128 - MaxWalsh(walsh_hadamard_transform(Bipolar(TruthTable(sbox, bit_pos))))

\* calculate_nonlinearity: the body of "for bit_pos in range(8)", nl
NonlinearityOfBit(sbox, bit_pos) ==
    128 - (MaxWalsh(walsh_hadamard_transform(
                        Bipolar(TruthTable(sbox, bit_pos)))) \div 2)

\* calculate_nonlinearity: the returned dictionary; nonlinearities is the
\* list, indexed from 0.
NonlinearityReport(nonlinearities) ==
    [min     |-> MinIn({nonlinearities[b] : b \in 0..7}),
     max     |-> MaxIn({nonlinearities[b] : b \in 0..7}),
     average |-> Ratio(SumRange(Bytes(nonlinearities), 1, 8), 8)]

\* calculate_nonlinearity(sbox)
calculate_nonlinearity(sbox) ==
    NonlinearityReport(
        Eager([bit_pos \in 0..7 |-> NonlinearityOfBit(sbox, bit_pos)]))

\* [sbox[x] ^ sbox[x ^ (1 << i)] for x in range(256)]: diff, for each x
OutputDiffs(sbox, i) ==
    Eager([x \in 0..255 |-> Xor(sbox[x], sbox[Xor(x, Shl(1, i))])])

\* calculate_sac: sac_matrix[i] before it is divided by 256, from the
\* differences for input bit i
SacRow(diffs) ==
    Eager([j \in 0..7 |->
        Cardinality({x \in 0..255 : And(Shr(diffs[x], j), 1) # 0})])

\* calculate_sac: the returned dictionary without "std"; counts is sac_matrix
\* before it is divided by 256.
SacReport(counts) ==
    [average |-> Ratio(SumRange(
                     [k \in 1..64 |-> counts[(k - 1) \div 8][(k - 1) % 8]], 1, 64),
                     256 * 64),
     min     |-> Ratio(MinIn({counts[i][j] : i \in 0..7, j \in 0..7}), 256),
     max     |-> Ratio(MaxIn({counts[i][j] : i \in 0..7, j \in 0..7}), 256),
     matrix  |-> counts]

\* calculate_sac(sbox)
calculate_sac(sbox) ==
    SacReport(Eager([i \in 0..7 |-> SacRow(OutputDiffs(sbox, i))]))

\* calculate_bic_sac: change_count for the output bits j, k, from the
\* differences for input bit i
ChangeCount(diffs, j, k) ==
    Cardinality({x \in 0..255 :
        Xor(And(Shr(diffs[x], j), 1), And(Shr(diffs[x], k), 1)) # 0})

\* The pairs (j, k) of "for k in range(j + 1, 8)" for one j, in order
PairsFrom(j) == [n \in 1..(7 - j) |-> <<j, j + n>>]

\* The pairs (j, k) of "for j in range(8): for k in range(j + 1, 8)", in the
\* order of the loops
BitPairs ==
    PairsFrom(0) \o PairsFrom(1) \o PairsFrom(2) \o PairsFrom(3)
        \o PairsFrom(4) \o PairsFrom(5) \o PairsFrom(6)

\* calculate_bic_sac: the list sac_values before each entry is divided by
\* 256; diffs[i] holds the differences for input bit i.
BicSacCounts(diffs) ==
    Eager([n \in 1..(8 * Len(BitPairs)) |->
        ChangeCount(diffs[(n - 1) % 8],
                    BitPairs[(n - 1) \div 8 + 1][1],
                    BitPairs[(n - 1) \div 8 + 1][2])])

\* calculate_bic_sac: the returned dictionary without "std_sac"; samples is
\* len(sac_values).
BicSacReport(counts) ==
    [average_sac |-> Ratio(SumRange(counts, 1, Len(counts)), 256 * Len(counts)),
     min_sac     |-> Ratio(MinIn({counts[n] : n \in 1..Len(counts)}), 256),
     max_sac     |-> Ratio(MaxIn({counts[n] : n \in 1..Len(counts)}), 256),
     samples     |-> Len(counts)]

\* calculate_bic_sac(sbox)
calculate_bic_sac(sbox) ==
    BicSacReport(BicSacCounts(Eager([i \in 0..7 |-> OutputDiffs(sbox, i)])))

\* "ddt[delta_in][delta_out] += 1" for one x; row is ddt[delta_in]
DdtStep(sbox, delta_in, st) ==
    [x   |-> st.x + 1,
     row |-> [st.row EXCEPT
                 ![Xor(sbox[st.x], sbox[Xor(st.x, delta_in)])] = @ + 1]]

RECURSIVE DdtLoop(_, _, _, _)
\* calculate_dap: "for x in range(256)" for one delta_in, from st.x up to hi.
\* The code runs the loop over delta_in inside the loop over x; the
\* increments of different rows do not touch one another, so each row is
\* what the loop over x alone makes of it.
DdtLoop(sbox, delta_in, st, hi) ==
    IF st.x >= hi THEN st
    ELSE IF st.x + 1 = hi THEN DdtStep(sbox, delta_in, st)
    ELSE DdtLoop(sbox, delta_in,
                 DdtLoop(sbox, delta_in, st, (st.x + hi) \div 2), hi)

\* calculate_dap: the row ddt[delta_in] after the first pair of loops
DdtRow(sbox, delta_in) ==
    DdtLoop(sbox, delta_in, [x |-> 0, row |-> Zeros(256)], 256).row

\* calculate_dap: the largest entry of each row delta_in in 1..255 and the
\* sum of each row, from which max_dap and average_dap are made
DapRowStats(row) ==
    [max |-> MaxIn({row[d] : d \in 0..255}),
     sum |-> SumRange(Bytes(row), 1, 256)]

\* calculate_dap: the returned dictionary; stats[delta_in] is the largest
\* entry and the sum of row delta_in.
DapReport(stats) ==
    [max_dap     |-> Ratio(MaxIn({stats[d].max : d \in 1..255}), 256),
     average_dap |-> Ratio(SumRange([d \in 1..255 |-> stats[d].sum], 1, 255),
                           256 * (255 * 256))]

\* calculate_dap(sbox)
calculate_dap(sbox) ==
    DapReport(Eager([delta_in \in 1..255 |->
                  DapRowStats(DdtRow(sbox, delta_in))]))

\* The S-boxes whose metrics are computed
MetricSboxes ==
    {generate_k44_sbox(SBoxGenerator), generate_aes_sbox(SBoxGenerator)}

Nonlinearity ==
    /\ analysis = NoCall
    /\ \E sbox \in MetricSboxes :
          analysis' = [op |-> "calculate_nonlinearity", input |-> sbox,
                       result |-> calculate_nonlinearity(sbox)]
    /\ UNCHANGED <<gf, gf_call, gen, report, cipher, block_call, enc, dec,
                   failures, inverse_call, server, handler, clock,
        rate_limiter, limiter_call, granted, cache_call>>

Sac ==
    /\ analysis = NoCall
    /\ \E sbox \in MetricSboxes :
          analysis' = [op |-> "calculate_sac", input |-> sbox,
                       result |-> calculate_sac(sbox)]
    /\ UNCHANGED <<gf, gf_call, gen, report, cipher, block_call, enc, dec,
                   failures, inverse_call, server, handler, clock,
        rate_limiter, limiter_call, granted, cache_call>>

BicSac ==
    /\ analysis = NoCall
    /\ \E sbox \in MetricSboxes :
          analysis' = [op |-> "calculate_bic_sac", input |-> sbox,
                       result |-> calculate_bic_sac(sbox)]
    /\ UNCHANGED <<gf, gf_call, gen, report, cipher, block_call, enc, dec,
                   failures, inverse_call, server, handler, clock,
        rate_limiter, limiter_call, granted, cache_call>>

Dap ==
    /\ analysis = NoCall
    /\ \E sbox \in MetricSboxes :
          analysis' = [op |-> "calculate_dap", input |-> sbox,
                       result |-> calculate_dap(sbox)]
    /\ UNCHANGED <<gf, gf_call, gen, report, cipher, block_call, enc, dec,
                   failures, inverse_call, server, handler, clock,
        rate_limiter, limiter_call, granted, cache_call>>

RECURSIVE Gcd(_, _)
\* The greatest common divisor of two naturals
Gcd(a, b) == IF b = 0 THEN a ELSE Gcd(b, a % b)

\* "abs(value - target) <= tolerance" for the ratio value and the decimal
\* target / scale with the tolerance tolerance / scale. Both sides of
\* scale * num - target * den <= tolerance * den are divided by g, the
\* common divisor of scale and den, which keeps the products in 32 bits.
WithinBy(value, target, tolerance, scale, g) ==
    Abs((scale \div g) * value.num - target * (value.den \div g))
        <= tolerance * (value.den \div g)

Within(value, target, tolerance, scale) ==
    WithinBy(value, target, tolerance, scale, Gcd(scale, value.den))

\* "abs(value - target) < tolerance", as WithinBy
StrictlyWithinBy(value, target, tolerance, scale, g) ==
    Abs((scale \div g) * value.num - target * (value.den \div g))
        < tolerance * (value.den \div g)

StrictlyWithin(value, target, tolerance, scale) ==
    StrictlyWithinBy(value, target, tolerance, scale, Gcd(scale, value.den))

\* C17: for generate_sbox(K44_MATRIX, 0x63) the average nonlinearity of the
\* eight output bits is 112 within 1, the SAC average is 0.50073 within
\* 0.001, the BIC-SAC average is taken over 224 samples and is 0.50237 within
\* 0.001, and the maximum DAP is exactly 4/256.
K44MetricsMatchPaper ==
    (analysis.op \in {"calculate_nonlinearity", "calculate_sac",
                      "calculate_bic_sac", "calculate_dap"}
        /\ analysis.input = generate_sbox(SBoxGenerator, K44_MATRIX, C_AES)) =>
        /\ analysis.op = "calculate_nonlinearity" =>
               Within(analysis.result.average, 112, 1, 1)
        /\ analysis.op = "calculate_sac" =>
               StrictlyWithin(analysis.result.average, 50073, 100, 100000)
        /\ analysis.op = "calculate_bic_sac" =>
               /\ analysis.result.samples = 224
               /\ StrictlyWithin(analysis.result.average_sac, 50237, 100, 100000)
        /\ analysis.op = "calculate_dap" =>
               analysis.result.max_dap.num * 256 = 4 * analysis.result.max_dap.den

\* The BIC-SAC of the K44 S-box has been computed: 28808 changes over 224
\* samples of 256 inputs
K44BicSacComputed ==
    /\ analysis.op = "calculate_bic_sac"
    /\ analysis.input = generate_sbox(SBoxGenerator, K44_MATRIX, C_AES)
    /\ analysis.result.average_sac = Ratio(28808, 256 * 224)

\* calculate_differential_uniformity: of the row ddt[delta_in], the largest
\* entry, and the sum and the number of the entries "if val > 0"
DuRowStats(row) ==
    [max      |-> MaxIn({row[d] : d \in 0..255}),
     sum      |-> SumRange(Bytes(row), 1, 256),
     positive |-> Cardinality({d \in 0..255 : row[d] > 0})]

\* The returned dictionary when the loops run over "range(256)": row 0 is
\* not left out
DuReportWithRowZero(stats) ==
    [max_du     |-> MaxIn({stats[d].max : d \in 0..255}),
     average_du |-> Ratio(SumRange([d \in 1..256 |-> stats[d - 1].sum], 1, 256),
                          SumRange([d \in 1..256 |-> stats[d - 1].positive], 1, 256))]

\* calculate_differential_uniformity: the returned dictionary, from the
\* loops "for delta_in in range(1, 256)"; du_values is never empty.
DuReport(stats) ==
    [max_du     |-> MaxIn({stats[d].max : d \in 1..255}),
     average_du |-> Ratio(SumRange([d \in 1..255 |-> stats[d].sum], 1, 255),
                          SumRange([d \in 1..255 |-> stats[d].positive], 1, 255))]

\* calculate_differential_uniformity(sbox)
calculate_differential_uniformity(sbox) ==
    DuReport(Eager([delta_in \in 0..255 |-> DuRowStats(DdtRow(sbox, delta_in))]))

\* The 256-entry arrays whose difference tables are computed: two
\* generated S-boxes, an affine permutation, a table that is no permutation
\* and a constant table
DifferentialSboxes ==
    MetricSboxes \cup {Eager([x \in 0..255 |-> Xor(x, 1)]),
                       CustomNotBijective,
                       Eager([x \in 0..255 |-> 7])}

\* calculate_dap and calculate_differential_uniformity are called on one S-box.
Differentials ==
    /\ analysis = NoCall
    /\ \E sbox \in DifferentialSboxes :
          analysis' = [op |-> "calculate_dap, calculate_differential_uniformity",
                       input |-> sbox,
                       dap |-> calculate_dap(sbox),
                       du |-> calculate_differential_uniformity(sbox)]
    /\ UNCHANGED <<gf, gf_call, gen, report, cipher, block_call, enc, dec,
                   failures, inverse_call, server, handler, clock,
        rate_limiter, limiter_call, granted, cache_call>>

\* The rows of the difference table of sbox, each as its largest entry and
\* its sum
DdtRows(sbox) ==
    Eager([delta_in \in 0..255 |-> DapRowStats(DdtRow(sbox, delta_in))])

\* dap and du are what the table with the rows rows gives: the same
\* maximum, taken over the rows 1..255, and every row sums to 256.
AgreeOnTable(dap, du, rows) ==
    /\ dap.max_dap.den = 256
    /\ dap.max_dap.num = du.max_du
    /\ du.max_du = MaxIn({rows[d].max : d \in 1..255})
    /\ \A d \in 0..255 : rows[d].sum = 256

\* C25: calculate_dap and calculate_differential_uniformity agree on one
\* difference table: max_dap * 256 = max_du, both maxima are taken over the
\* input differences 1..255, and every row of the table sums to 256.
DapAgreesWithDu ==
    analysis.op = "calculate_dap, calculate_differential_uniformity" =>
        AgreeOnTable(analysis.dap, analysis.du, DdtRows(analysis.input))

\* Both were computed for the AES S-box: the maximum is 4, although row 0
\* of the table holds 256.
AesDifferentialsComputed ==
    /\ analysis.op = "calculate_dap, calculate_differential_uniformity"
    /\ analysis.input = generate_aes_sbox(SBoxGenerator)
    /\ analysis.du.max_du = 4
    /\ analysis.dap.max_dap = Ratio(4, 256)
    /\ DdtRow(analysis.input, 0)[0] = 256

\* Every sequence of 2^n integers of WalshValues, n <= MaxWalshBits, is
\* transformed
MaxWalshBits == 2

WalshValues == -1..2

\* The lists given to walsh_hadamard_transform: the short sequences, and the
\* bipolar form of a component function of the K44 S-box and of one of the
\* AES S-box, of length 256
WalshInputs ==
    UNION {[0..(2 ^ n - 1) -> WalshValues] : n \in 0..MaxWalshBits}
        \cup {Bipolar(TruthTable(generate_k44_sbox(SBoxGenerator), 0)),
              Bipolar(TruthTable(generate_aes_sbox(SBoxGenerator), 7))}

\* A call walsh_hadamard_transform(truth_table): "spectrum =
\* list(truth_table)" makes a new list, the passes write to it alone;
\* truth_table is the caller's list after the call.
WalshCall(truth_table) ==
    [truth_table |-> truth_table,
     result      |-> walsh_hadamard_transform(truth_table)]

WalshHadamardTransform ==
    /\ analysis = NoCall
    /\ \E truth_table \in WalshInputs :
       \E call \in {WalshCall(truth_table)} :
          analysis' = [op |-> "walsh_hadamard_transform", input |-> truth_table,
                       after |-> call.truth_table, result |-> call.result]
    /\ UNCHANGED <<gf, gf_call, gen, report, cipher, block_call, enc, dec,
                   failures, inverse_call, server, handler, clock,
        rate_limiter, limiter_call, granted, cache_call>>

RECURSIVE hamming_weight(_)
\* hamming_weight(n): "while n: count += n & 1; n >>= 1"
hamming_weight(n) ==
    IF n = 0 THEN 0 ELSE (n % 2) + hamming_weight(n \div 2)

\* t[x] * (-1)^popcount(a AND x)
SignedTerm(t, a, x) ==
    IF hamming_weight(And(a, x)) % 2 = 0 THEN t[x] ELSE 0 - t[x]

\* The sum over x in 0..n-1 of t[x] * (-1)^popcount(a AND x)
DirectSum(t, a, n) == SumRange([k \in 1..n |-> SignedTerm(t, a, k - 1)], 1, n)

\* C26: for a list t whose length n is a power of two,
\* walsh_hadamard_transform(t)[a] is the sum over x in 0..n-1 of
\* t[x] * (-1)^popcount(a AND x), for every a, and t is left unchanged.
WalshIsDirectSum ==
    analysis.op = "walsh_hadamard_transform" =>
        /\ analysis.after = analysis.input
        /\ DOMAIN analysis.result = DOMAIN analysis.input
        /\ \A a \in DOMAIN analysis.input :
              analysis.result[a] =
                  DirectSum(analysis.input, a, LenList(analysis.input))

\* A component function of the K44 S-box was transformed: 256 entries, the
\* entry at 0 is 0 (the function is balanced) and the largest is 32.
K44ComponentTransformed ==
    /\ analysis.op = "walsh_hadamard_transform"
    /\ LenList(analysis.input) = 256
    /\ analysis.input = Bipolar(TruthTable(generate_k44_sbox(SBoxGenerator), 0))
    /\ analysis.result[0] = 0
    /\ MaxWalsh(analysis.result) = 32

\* 256-entry arrays with values in 0..255 that are not permutations: x ->
\* 6x + 3, a constant, x -> x div 2 (every walk runs into 0), x -> x * x, and
\* a path 0, 1, ..., 255 that runs into the cycle 100, ..., 255
CycleArrays ==
    {CustomNotBijective,
     Eager([x \in 0..255 |-> 7]),
     Eager([x \in 0..255 |-> x \div 2]),
     Eager([x \in 0..255 |-> (x * x) % 256]),
     Eager([x \in 0..255 |-> IF x = 255 THEN 100 ELSE x + 1])}

\* calculate_cycle_structure on an array that need not be a permutation; the
\* locals at the return are kept with the result.
CycleStructureOfArray ==
    /\ analysis = NoCall
    /\ \E sbox \in CycleArrays \cup {generate_aes_sbox(SBoxGenerator)} :
       \E run \in {CycleRun(sbox)} :
          analysis' = [op |-> "calculate_cycle_structure of an array",
                       input |-> sbox, result |-> CycleReport(run.cycles),
                       i |-> run.i, visited |-> run.visited, ended |-> run.ended]
    /\ UNCHANGED <<gf, gf_call, gen, report, cipher, block_call, enc, dec,
                   failures, inverse_call, server, handler, clock,
        rate_limiter, limiter_call, granted, cache_call>>

\* C27: calculate_cycle_structure terminates for every 256-entry array with
\* values in 0..255, permutation or not: every while loop ends at a visited
\* index, the for loop reaches 256, and each of the 256 indices was marked
\* visited exactly once (an index is marked only while it is unmarked, and
\* every marking adds one to a length: the lengths sum to 256).
CycleStructureTerminates ==
    analysis.op = "calculate_cycle_structure of an array" =>
        /\ analysis.ended
        /\ analysis.i = 256
        /\ \A x \in 0..255 : analysis.visited[x]
        /\ SumRange(analysis.result.cycles, 1, Len(analysis.result.cycles)) = 256

\* The constant array was walked: the walk from 0 marks 0 and 7, every
\* other index is a walk of length 1 that ends at 7.
ConstantArrayWalked ==
    /\ analysis.op = "calculate_cycle_structure of an array"
    /\ ~Permutation(analysis.input)
    /\ analysis.input[0] = 7 /\ analysis.input[255] = 7
    /\ analysis.result.count = 255
    /\ analysis.result.max_length = 2
    /\ analysis.result.fixed_points = 254

NextAnalyzer ==
    \/ AnfTransform \/ AnfTransformAgain \/ CycleStructure
    \/ Nonlinearity \/ Sac \/ BicSac \/ Dap
    \/ Differentials \/ WalshHadamardTransform \/ CycleStructureOfArray

SpecAnalyzer == InitAnalyzer /\ [][NextAnalyzer]_vars

-----------------------------------------------------------------------------
(* main.py: the request cache and the deduplication of /analyze and /compare.
   The handlers are coroutines of one event loop: a handler runs without
   interruption from one await to the next, so each action is the code between
   two awaits.  clear_cache is a plain function, which the framework runs in a
   worker thread: its two statements are two steps.  A result is named by the
   request that computed it, an asyncio.Event by the request that created
   it. *)

\* Requests 1..MaxRequests arrive, once each
MaxRequests == 3

Requests == 1..MaxRequests

\* generate_cache_key: /analyze is asked about MaxKeys different S-boxes,
\* whose keys are 1..MaxKeys; /compare is asked with a valid custom S-box
\* and with a custom S-box that validate_sbox_values rejects, which have keys
\* of their own.
MaxKeys == 2

CompareKey == MaxKeys + 1

InvalidCompareKey == MaxKeys + 2

CacheKeys == 1..InvalidCompareKey

\* What a request asks: the endpoint, the cache key of its body, and whether
\* validate_sbox_values accepts the S-box.  /analyze validates before it
\* makes a key.
Bodies ==
    {[endpoint |-> "analyze", key |-> k, valid |-> TRUE] : k \in 1..MaxKeys}
        \cup {[endpoint |-> "analyze", key |-> 0, valid |-> FALSE],
              [endpoint |-> "compare", key |-> CompareKey, valid |-> TRUE],
              [endpoint |-> "compare", key |-> InvalidCompareKey,
               valid |-> FALSE]}

\* /cache/clear is called at most MaxClears times
MaxClears == 1

\* dict[k] = v
With(dict, k, v) ==
    [x \in (DOMAIN dict) \cup {k} |-> IF x = k THEN v ELSE dict[x]]

\* "if k in dict: del dict[k]"
Without(dict, k) == [x \in (DOMAIN dict) \ {k} |-> dict[x]]

\* What a handler returns or raises: AnalysisResponse(**result) or
\* HTTPException(status_code)
Response(result) == [status |-> 200, result |-> result]

HttpException(status_code) == [status |-> status_code]

\* No response yet
NoResponse == [status |-> 0]

\* A request that has not arrived
NotArrived ==
    [pc |-> "idle", endpoint |-> "none", key |-> 0, event |-> 0,
     waited |-> 0, response |-> NoResponse]

InitServer ==
    /\ gf = GenerateTables
    /\ Idle({"gf_call", "gen", "report", "cipher", "block_call", "enc", "dec",
             "failures", "inverse_call", "analysis",
             "clock",
             "rate_limiter",
             "limiter_call",
             "granted",
             "cache_call"})
    /\ server = [analysis_cache   |-> <<>>,
                 pending_requests |-> <<>>,
                 pending_results  |-> <<>>,
                 events           |-> [r \in Requests |-> FALSE],
                 cleanup_tasks    |-> {},
                 clear_pc         |-> "idle",
                 clears           |-> 0]
    /\ handler = [r \in Requests |-> NotArrived]

(* Time is not a variable.  What the model keeps of it is the order of three
   delays that start when an analysis returns: the requests it released
   resume in the event loop's next iteration; its cleanup_pending_result task
   sleeps five seconds; its cache entry expires after CACHE_TTL_MINUTES. *)

\* The requests that wait on the event of request r, which is set: they
\* resume in the event loop's next iteration.
ToResume(r) ==
    {q \in Requests : /\ handler[q].pc = "waiting"
                      /\ handler[q].event = handler[r].event
                      /\ server.events[handler[q].event]}

\* get_from_cache: whether the entry of cache_key, if there is one, is older
\* than CACHE_TTL_MINUTES.  It is not while the cleanup task of the request
\* that saved it still sleeps.
Expired(cache_key) ==
    IF /\ cache_key \in DOMAIN server.analysis_cache
       /\ \A task \in server.cleanup_tasks :
             task.by # server.analysis_cache[cache_key]
    THEN BOOLEAN
    ELSE {FALSE}

\* get_from_cache(cache_key): the cache after the lookup; an entry older than
\* CACHE_TTL_MINUTES is deleted.
CacheAfterLookup(analysis_cache, cache_key, expired) ==
    IF cache_key \in DOMAIN analysis_cache /\ expired
    THEN Without(analysis_cache, cache_key)
    ELSE analysis_cache

\* "finally": "if cache_key in pending_requests: del
\* pending_requests[cache_key]" and
\* "asyncio.create_task(cleanup_pending_result(cache_key))"; sv is the
\* server's state before it.
Finally(sv, r, cache_key) ==
    [sv EXCEPT !.pending_requests = Without(@, cache_key),
               !.cleanup_tasks = @ \cup {[by |-> r, key |-> cache_key]}]

\* "event = asyncio.Event(); pending_requests[cache_key] = event" and the
\* code up to the first await of the try block.  /compare validates the custom
\* S-box inside the try block, before any await: an invalid one raises there.
StartAnalysis(sv, h, r, valid) ==
    IF h.endpoint = "compare" /\ ~valid
    THEN [server  |-> Finally([sv EXCEPT !.pending_requests = With(@, h.key, r)],
                              r, h.key),
          handler |-> [h EXCEPT !.pc = "done", !.event = r,
                                !.response = HttpException(400)]]
    ELSE [server  |-> [sv EXCEPT !.pending_requests = With(@, h.key, r)],
          handler |-> [h EXCEPT !.pc = "analyzing", !.event = r]]

\* analyze / compare from the start to the first await; sv is the server after
\* get_from_cache, h the handler's variables.
HandleRequest(sv, h, r, valid) ==
    IF h.endpoint = "analyze" /\ ~valid
    THEN [server  |-> server,   \* validate_sbox_values precedes the lookup
          handler |-> [h EXCEPT !.pc = "done", !.response = HttpException(400)]]
    ELSE IF h.key \in DOMAIN sv.analysis_cache
    THEN [server  |-> sv,
          handler |-> [h EXCEPT !.pc = "done",
                                !.response = Response(sv.analysis_cache[h.key])]]
    ELSE IF h.key \in DOMAIN sv.pending_requests
    THEN [server  |-> sv,
          handler |-> [h EXCEPT !.pc = "waiting",
                                !.event = sv.pending_requests[h.key],
                                !.waited = sv.pending_requests[h.key]]]
    ELSE StartAnalysis(sv, h, r, valid)

\* A request arrives at /analyze or /compare and runs to its first await.
Arrive ==
    \E r \in Requests :
       /\ server # NotMade
       /\ handler[r].pc = "idle"
       /\ \E body \in Bodies :
          \E expired \in Expired(body.key) :
             \E next \in {HandleRequest(
                    [server EXCEPT !.analysis_cache =
                         CacheAfterLookup(@, body.key, expired)],
                    [handler[r] EXCEPT !.endpoint = body.endpoint,
                                       !.key = body.key],
                    r, body.valid)} :
                /\ server' = next.server
                /\ handler' = [handler EXCEPT ![r] = next.handler]
       /\ UNCHANGED <<gf, gf_call, gen, report, cipher, block_call, enc, dec,
                      failures, inverse_call, analysis, clock,
        rate_limiter, limiter_call, granted, cache_call>>

\* The try block from the await of run_in_executor on, when the analysis
\* returns: save_to_cache, pending_results[cache_key] = result_dict,
\* event.set(), return, and the finally block.
AnalysisReturns(sv, h, r) ==
    [server  |-> Finally([sv EXCEPT !.analysis_cache = With(@, h.key, r),
                                    !.pending_results = With(@, h.key, r),
                                    !.events[h.event] = TRUE],
                         r, h.key),
     handler |-> [h EXCEPT !.pc = "done", !.response = Response(r)]]

\* The same when the analysis raises: the finally block, then
\* "except Exception" makes an HTTPException of it.
AnalysisRaises(sv, h, r) ==
    [server  |-> Finally(sv, r, h.key),
     handler |-> [h EXCEPT !.pc = "done", !.response = HttpException(500)]]

\* The same when the handler's task is cancelled at the await: the finally
\* block runs, CancelledError is no Exception and leaves the handler.
AnalysisCancelled(sv, h, r) ==
    [server  |-> Finally(sv, r, h.key),
     handler |-> [h EXCEPT !.pc = "cancelled"]]

\* The analysis of request r ends: it returns, raises or is cancelled.  The
\* handler is resumed through the event loop, after the requests that are
\* already due to resume.
Finish ==
    \E r \in Requests :
       /\ server # NotMade
       /\ handler[r].pc = "analyzing"
       /\ \A q \in Requests : ToResume(q) = {}
       /\ \E next \in {AnalysisReturns(server, handler[r], r),
                       AnalysisRaises(server, handler[r], r),
                       AnalysisCancelled(server, handler[r], r)} :
             /\ server' = next.server
             /\ handler' = [handler EXCEPT ![r] = next.handler]
       /\ UNCHANGED <<gf, gf_call, gen, report, cipher, block_call, enc, dec,
                      failures, inverse_call, analysis, clock,
        rate_limiter, limiter_call, granted, cache_call>>

\* After "await event.wait()": "result = pending_results.get(cache_key); if
\* result: return ..."; without a result the handler goes on to make its own
\* event and to run the analysis itself.
AfterWait(sv, h, r) ==
    IF h.key \in DOMAIN sv.pending_results
    THEN [server  |-> sv,
          handler |-> [h EXCEPT !.pc = "done",
                                !.response = Response(sv.pending_results[h.key])]]
    ELSE StartAnalysis(sv, h, r, TRUE)

\* A waiting request whose event is set resumes.
Resume ==
    \E r \in Requests :
       /\ server # NotMade
       /\ handler[r].pc = "waiting"
       /\ server.events[handler[r].event]
       /\ \E next \in {AfterWait(server, handler[r], r)} :
             /\ server' = next.server
             /\ handler' = [handler EXCEPT ![r] = next.handler]
       /\ UNCHANGED <<gf, gf_call, gen, report, cipher, block_call, enc, dec,
                      failures, inverse_call, analysis, clock,
        rate_limiter, limiter_call, granted, cache_call>>

\* cleanup_pending_result(cache_key), a task made by request task.by: after
\* "await asyncio.sleep(5)", "if cache_key in pending_results: del
\* pending_results[cache_key]".  The five seconds outlast the resumption of
\* the requests that the same request released.
CleanupPendingResult ==
    \E task \in (IF server = NotMade THEN {} ELSE server.cleanup_tasks) :
       /\ ToResume(task.by) = {}
       /\ server' = [server EXCEPT !.cleanup_tasks = @ \ {task},
                                   !.pending_results = Without(@, task.key)]
       /\ UNCHANGED <<gf, gf_call, gen, report, cipher, block_call, enc, dec,
                      failures, inverse_call, analysis, handler,
        clock, rate_limiter, limiter_call, granted, cache_call>>

\* clear_cache: "analysis_cache.clear()"
ClearCache ==
    /\ server # NotMade
    /\ server.clear_pc = "idle"
    /\ server.clears < MaxClears
    /\ server' = [server EXCEPT !.analysis_cache = <<>>,
                                !.clear_pc = "cache cleared",
                                !.clears = @ + 1]
    /\ UNCHANGED <<gf, gf_call, gen, report, cipher, block_call, enc, dec,
                   failures, inverse_call, analysis, handler, clock,
        rate_limiter, limiter_call, granted, cache_call>>

\* clear_cache: "pending_results.clear()" and the return
ClearPendingResults ==
    /\ server # NotMade
    /\ server.clear_pc = "cache cleared"
    /\ server' = [server EXCEPT !.pending_results = <<>>, !.clear_pc = "idle"]
    /\ UNCHANGED <<gf, gf_call, gen, report, cipher, block_call, enc, dec,
                   failures, inverse_call, analysis, handler, clock,
        rate_limiter, limiter_call, granted, cache_call>>

NextServer ==
    \/ Arrive \/ Finish \/ Resume
    \/ CleanupPendingResult \/ ClearCache \/ ClearPendingResults

SpecServer == InitServer /\ [][NextServer]_vars

\* The event loop runs every task that can run; an analysis in the thread
\* pool ends, one way or another; clear_cache runs to its end.  Whether a
\* request or a call of /cache/clear arrives is up to the clients.
SpecServerFair ==
    /\ SpecServer
    /\ WF_vars(Finish)
    /\ WF_vars(Resume)
    /\ WF_vars(CleanupPendingResult)
    /\ WF_vars(ClearPendingResults)

\* The requests whose analysis for cache_key is running
Running(cache_key) ==
    {r \in Requests : handler[r].pc = "analyzing" /\ handler[r].key = cache_key}

\* C19: every request that finds its cache key in pending_requests and waits
\* on the key's event is eventually released and returns a response, whether
\* the analysis it waits for completes, raises or is cancelled.
\* (A released request that runs the analysis itself may be cancelled in its
\* turn: that also ends its wait.)
WaitingRequestsReturn ==
    \A r \in Requests :
       (handler[r].pc = "waiting") ~>
           \/ handler[r].pc = "done" /\ handler[r].response # NoResponse
           \/ handler[r].pc = "cancelled"

\* C20: at most one analysis for a cache key is running at any time, and a
\* request that waited returns the result of the request whose event it
\* waited on.
OneAnalysisPerKey ==
    /\ \A cache_key \in CacheKeys : Cardinality(Running(cache_key)) <= 1
    /\ \A r \in Requests :
          (handler[r].waited # 0 /\ handler[r].pc = "done"
              /\ handler[r].response.status = 200) =>
              handler[r].response.result = handler[r].waited

-----------------------------------------------------------------------------
(* The matrix IDENTITY_MATRIX, checked under SpecSBox. *)

\* C30: IDENTITY_MATRIX acts as the identity under affine_transform, so an
\* S-box generated from it and the constant c holds inverse(x) XOR c at
\* every x.
IdentityMatrixGivesInverse ==
    (gen.made /\ gen.matrix = IDENTITY_MATRIX) =>
        \A x \in 0..255 :
           /\ affine_transform(x, gen.matrix, 0) = x
           /\ gen.sbox[x] = Xor(inverse(gf, x), gen.constant)

-----------------------------------------------------------------------------
(* The layout of encrypt's output, checked under SpecCipher. *)

\* Block i of the plaintext followed by k = 16 - (n mod 16) bytes of value
\* k, n being the plaintext's length; blocks are counted from 0.
PaddedBlock(plaintext, i) ==
    [j \in 1..16 |->
        IF 16 * i + j <= Len(plaintext) THEN plaintext[16 * i + j]
        ELSE 16 - (Len(plaintext) % 16)]

\* out is iv followed by the CBC chain of blocks blocks of the padded
\* plaintext under key
CbcLayout(self, plaintext, key, out, blocks) ==
    /\ Len(out) = 16 + 16 * blocks
    /\ \A i \in 0..(blocks - 1) :
          Ok(Slice(out, 16 * (i + 1), 16 * (i + 2))) =
              encrypt_block(self,
                  XorBlocks(PaddedBlock(plaintext, i),
                            Slice(out, 16 * i, 16 * (i + 1))),
                  key)

\* C24: for a plaintext of n bytes encrypt returns 16 + 16 * (n div 16 + 1)
\* bytes; the first 16 are iv, and ciphertext block i is encrypt_block of
\* padded block i XOR the block before it, the iv before block 0; the
\* padding is k = 16 - (n mod 16) bytes of value k.
EncryptLayout ==
    (enc.op = "encrypt" /\ dec = NoCall /\ enc.result.ok) =>
        /\ enc.iv # None => Slice(enc.result.value, 0, 16) = enc.iv
        /\ CbcLayout(cipher.result.value, enc.plaintext, enc.key,
                     enc.result.value, Len(enc.plaintext) \div 16 + 1)

\* A plaintext of 16 bytes was encrypted under a given IV: the output has
\* the IV, the block of the plaintext and a block of padding.
FullBlockEncrypted ==
    /\ enc.op = "encrypt" /\ dec = NoCall /\ enc.result.ok
    /\ enc.iv = GivenIv
    /\ Len(enc.plaintext) = 16
    /\ Len(enc.result.value) = 48
    /\ PaddedBlock(enc.plaintext, 1) = [j \in 1..16 |-> 16]


-----------------------------------------------------------------------------
(* rate_limiter.py: one RateLimiter object and a sequence of is_allowed and
   get_remaining calls.  Each call reads datetime.now() once; the clock never
   goes back.  A client the defaultdict has no list for yet has the empty
   list. *)

\* The clients that call
Clients == {"10.0.0.1", "10.0.0.2"}

\* The largest requests_per_minute the object is constructed with
MaxPerMinute == 2

\* The number of calls in a behaviour
MaxCalls == 4

\* timedelta(minutes=1), in seconds
WindowSeconds == 60

\* The seconds that pass between one call and the next
Delays == {0, 1, 59}

\* RateLimiter.__init__(requests_per_minute)
RateLimiterInit(requests_per_minute) ==
    [requests_per_minute |-> requests_per_minute,
     requests            |-> [c \in Clients |-> <<>>],
     window              |-> WindowSeconds]

\* "[req_time for req_time in self.requests[client_id]
\*   if now - req_time < self.window]"
CleanOld(self, client_id, now) ==
    SelectSeq(self.requests[client_id], LAMBDA req_time : now - req_time < self.window)

\* is_allowed with "current_requests > self.requests_per_minute"
is_allowed_one_more(self, client_id, now) ==
    LET cleaned          == CleanOld(self, client_id, now)
        current_requests == Len(cleaned)
    IN  IF current_requests > self.requests_per_minute
        THEN [self   |-> [self EXCEPT !.requests[client_id] = cleaned],
              result |-> <<FALSE, 0>>]
        ELSE [self   |-> [self EXCEPT !.requests[client_id] = Append(cleaned, now)],
              result |-> <<TRUE, self.requests_per_minute - current_requests - 1>>]

\* RateLimiter.is_allowed(client_id) at the time now: the object afterwards
\* and the tuple returned
is_allowed(self, client_id, now) ==
    LET cleaned          == CleanOld(self, client_id, now)
        current_requests == Len(cleaned)
    IN  IF current_requests >= self.requests_per_minute
        THEN [self   |-> [self EXCEPT !.requests[client_id] = cleaned],
              result |-> <<FALSE, 0>>]
        ELSE [self   |-> [self EXCEPT !.requests[client_id] = Append(cleaned, now)],
              result |-> <<TRUE, self.requests_per_minute - current_requests - 1>>]

\* RateLimiter.get_remaining(client_id) at the time now
get_remaining(self, client_id, now) ==
    LET cleaned          == CleanOld(self, client_id, now)
        current_requests == Len(cleaned)
    IN  [self   |-> [self EXCEPT !.requests[client_id] = cleaned],
         result |-> IF self.requests_per_minute - current_requests > 0
                    THEN self.requests_per_minute - current_requests ELSE 0]

\* The calls made so far
CallsMade == IF limiter_call = NoCall THEN 0 ELSE limiter_call.calls

InitLimiter ==
    /\ gf = GenerateTables
    /\ Idle({"gf_call", "gen", "report", "cipher", "block_call", "enc", "dec",
             "failures", "inverse_call", "analysis", "server", "handler",
             "cache_call"})
    /\ clock = 0
    /\ \E requests_per_minute \in 1..MaxPerMinute :
          rate_limiter = RateLimiterInit(requests_per_minute)
    /\ limiter_call = NoCall
    /\ granted = [c \in Clients |-> <<>>]

IsAllowed ==
    /\ CallsMade < MaxCalls
    /\ \E client_id \in Clients, delay \in Delays :
       \E call \in {is_allowed(rate_limiter, client_id, clock + delay)} :
          /\ clock' = clock + delay
          /\ rate_limiter' = call.self
          /\ limiter_call' = [op |-> "is_allowed", client_id |-> client_id,
                              now |-> clock + delay, result |-> call.result,
                              before |-> rate_limiter.requests,
                              calls |-> CallsMade + 1]
          /\ granted' = IF call.result[1]
                        THEN [granted EXCEPT ![client_id] = Append(@, clock + delay)]
                        ELSE granted
    /\ UNCHANGED <<gf, gf_call, gen, report, cipher, block_call, enc, dec,
                   failures, inverse_call, analysis, server, handler,
                   cache_call>>

GetRemaining ==
    /\ CallsMade < MaxCalls
    /\ \E client_id \in Clients, delay \in Delays :
       \E call \in {get_remaining(rate_limiter, client_id, clock + delay)} :
          /\ clock' = clock + delay
          /\ rate_limiter' = call.self
          /\ limiter_call' = [op |-> "get_remaining", client_id |-> client_id,
                              now |-> clock + delay, result |-> call.result,
                              before |-> rate_limiter.requests,
                              calls |-> CallsMade + 1]
    /\ UNCHANGED <<gf, gf_call, gen, report, cipher, block_call, enc, dec,
                   failures, inverse_call, analysis, server, handler,
                   cache_call, granted>>

NextLimiter == IsAllowed \/ GetRemaining

SpecLimiter == InitLimiter /\ [][NextLimiter]_vars

\* The is_allowed calls of client c that returned True in the 60 seconds up
\* to and including the j-th of them
GrantedInWindow(c, j) ==
    {k \in 1..Len(granted[c]) :
        /\ granted[c][k] <= granted[c][j]
        /\ granted[c][j] - granted[c][k] < WindowSeconds}

\* C21: with the clock never going back, for every client the number of
\* is_allowed calls that returned True within any window of 60 seconds (a
\* window that holds one end and not the other) is at most
\* requests_per_minute; a call that returns False records no request (the
\* client's list is the old list without the entries a minute old or more);
\* and a call for one client leaves the lists of the other clients alone.
RateLimitHolds ==
    /\ \A c \in Clients : \A j \in 1..Len(granted[c]) :
          Cardinality(GrantedInWindow(c, j)) <= rate_limiter.requests_per_minute
    /\ limiter_call # NoCall =>
          /\ (limiter_call.op = "is_allowed" /\ ~limiter_call.result[1]) =>
                /\ rate_limiter.requests[limiter_call.client_id]
                     = SelectSeq(limiter_call.before[limiter_call.client_id],
                                 LAMBDA t : limiter_call.now - t < WindowSeconds)
                /\ Len(rate_limiter.requests[limiter_call.client_id])
                     <= Len(limiter_call.before[limiter_call.client_id])
          /\ \A c \in Clients \ {limiter_call.client_id} :
                rate_limiter.requests[c] = limiter_call.before[c]

\* A client that had used up its minute was allowed again exactly 60
\* seconds after its first request, while the other client's list stayed as
\* it was.
AllowedAgainAfterAMinute ==
    /\ limiter_call # NoCall
    /\ limiter_call.op = "is_allowed"
    /\ limiter_call.result[1]
    /\ limiter_call.now = 60
    /\ Len(limiter_call.before[limiter_call.client_id])
         = rate_limiter.requests_per_minute
    /\ rate_limiter.requests[limiter_call.client_id] = <<60>>
    /\ Len(granted[limiter_call.client_id]) = rate_limiter.requests_per_minute + 1
    /\ \E c \in Clients \ {limiter_call.client_id} : rate_limiter.requests[c] # <<>>

-----------------------------------------------------------------------------
(* main.py's result cache: a sequence of get_from_cache, save_to_cache and
   clear_cache calls, one after the other.  analysis_cache is a Python dict:
   the sequence of its items [key, value] in insertion order, a value being
   the tuple <<result, timestamp>>.  Each of get_from_cache and save_to_cache
   reads datetime.now() once; the clock, in seconds, never goes back. *)

\* CACHE_TTL_MINUTES, its default
CACHE_TTL_MINUTES == 30

\* timedelta(minutes=CACHE_TTL_MINUTES), in seconds
TtlSeconds == 60 * CACHE_TTL_MINUTES

\* "keep only last 100"
CacheLimit == 100

\* The number of calls in a behaviour
MaxCacheCalls == 3

\* The cache keys the calls pass: the first and the last key of a full
\* cache, and two more
CallKeys == {1, CacheLimit, CacheLimit + 1, CacheLimit + 2}

\* The seconds that pass between one call and the next
CacheDelays == {0, 1, TtlSeconds - 1}

\* The index of key k in dict, 0 without it
IndexOf(dict, k) ==
    IF \E i \in 1..Len(dict) : dict[i].key = k
    THEN CHOOSE i \in 1..Len(dict) : dict[i].key = k
    ELSE 0

\* "k in dict"
HasKey(dict, k) == IndexOf(dict, k) # 0

\* "dict[k]"
GetItem(dict, k) == dict[IndexOf(dict, k)].value

\* "dict[k] = v": a key the dict has keeps its place
SetItem(dict, k, v) ==
    IF HasKey(dict, k)
    THEN [dict EXCEPT ![IndexOf(dict, k)].value = v]
    ELSE Append(dict, [key |-> k, value |-> v])

\* "del dict[k]", k being a key of dict
DelItem(dict, k) == SelectSeq(dict, LAMBDA item : item.key # k)

\* The first index of dict, in insertion order, whose timestamp is stamp
FirstStamped(dict, stamp) ==
    CHOOSE i \in 1..Len(dict) :
        /\ dict[i].value[2] = stamp
        /\ \A j \in 1..(i - 1) : dict[j].value[2] # stamp

\* max in place of min: the first key with the newest timestamp
newest_key(analysis_cache) ==
    analysis_cache[FirstStamped(analysis_cache,
        MaxIn({analysis_cache[i].value[2] : i \in 1..Len(analysis_cache)}))].key

\* "min(analysis_cache.keys(), key=lambda k: analysis_cache[k][1])": the first
\* key, in insertion order, with the least timestamp
oldest_key(analysis_cache) ==
    analysis_cache[FirstStamped(analysis_cache,
        MinIn({analysis_cache[i].value[2] : i \in 1..Len(analysis_cache)}))].key

\* get_from_cache with "age <= timedelta(minutes=CACHE_TTL_MINUTES)"
get_from_cache_at_ttl(analysis_cache, cache_key, now) ==
    IF HasKey(analysis_cache, cache_key)
    THEN IF now - GetItem(analysis_cache, cache_key)[2] <= TtlSeconds
         THEN [analysis_cache |-> analysis_cache,
               result |-> GetItem(analysis_cache, cache_key)[1]]
         ELSE [analysis_cache |-> DelItem(analysis_cache, cache_key),
               result |-> None]
    ELSE [analysis_cache |-> analysis_cache, result |-> None]

\* get_from_cache(cache_key) at the time now: the dict afterwards and what is
\* returned
get_from_cache(analysis_cache, cache_key, now) ==
    IF HasKey(analysis_cache, cache_key)
    THEN IF now - GetItem(analysis_cache, cache_key)[2] < TtlSeconds
         THEN [analysis_cache |-> analysis_cache,
               result |-> GetItem(analysis_cache, cache_key)[1]]
         ELSE [analysis_cache |-> DelItem(analysis_cache, cache_key),
               result |-> None]
    ELSE [analysis_cache |-> analysis_cache, result |-> None]

\* "if len(analysis_cache) > 100: oldest_key = min(...); del
\* analysis_cache[oldest_key]"
Cleanup(analysis_cache) ==
    IF Len(analysis_cache) > CacheLimit
    THEN DelItem(analysis_cache, oldest_key(analysis_cache))
    ELSE analysis_cache

\* save_to_cache(cache_key, result) at the time now: the dict afterwards
save_to_cache(analysis_cache, cache_key, result, now) ==
    Cleanup(SetItem(analysis_cache, cache_key, <<result, now>>))

\* The cache after n saves of the keys 1..n, two every ten seconds from the
\* time 10 on; with resaved, key 1 was saved once more, at the time 510.
\* The result saved for a key is the pair of the key and the number of the
\* call that saved it.
Filled(n, resaved) ==
    [i \in 1..n |->
        [key   |-> i,
         value |-> <<<<i, 0>>,
                     IF resaved /\ i = 1 THEN 510 ELSE 10 * ((i + 1) \div 2)>>]]

\* The calls made so far
CacheCallsMade == IF cache_call = NoCall THEN 0 ELSE cache_call.calls

\* The cache is empty, or one short of its limit, or at its limit; the clock
\* is one second short of the expiry of the entries saved at the time 10.
InitCache ==
    /\ gf = GenerateTables
    /\ Idle({"gf_call", "gen", "report", "cipher", "block_call", "enc", "dec",
             "failures", "inverse_call", "analysis", "handler",
             "rate_limiter", "limiter_call", "granted", "cache_call"})
    /\ clock = 10 + TtlSeconds - 1
    /\ \E n \in {0, CacheLimit - 1, CacheLimit}, resaved \in BOOLEAN :
          /\ resaved => n > 0
          /\ server = [analysis_cache  |-> Filled(n, resaved),
                       pending_results |-> <<>>]

GetFromCache ==
    /\ CacheCallsMade < MaxCacheCalls
    /\ \E cache_key \in CallKeys, delay \in CacheDelays :
       \E call \in {get_from_cache(server.analysis_cache, cache_key, clock + delay)} :
          /\ clock' = clock + delay
          /\ server' = [server EXCEPT !.analysis_cache = call.analysis_cache]
          /\ cache_call' = [op |-> "get_from_cache", cache_key |-> cache_key,
                            now |-> clock + delay, result |-> call.result,
                            before |-> server.analysis_cache,
                            calls |-> CacheCallsMade + 1]
    /\ UNCHANGED <<gf, gf_call, gen, report, cipher, block_call, enc, dec,
                   failures, inverse_call, analysis, handler, rate_limiter,
                   limiter_call, granted>>

SaveToCache ==
    /\ CacheCallsMade < MaxCacheCalls
    /\ \E cache_key \in CallKeys, delay \in CacheDelays :
          /\ clock' = clock + delay
          /\ server' = [server EXCEPT !.analysis_cache =
                            save_to_cache(@, cache_key,
                                          <<cache_key, CacheCallsMade + 1>>,
                                          clock + delay)]
          /\ cache_call' = [op |-> "save_to_cache", cache_key |-> cache_key,
                            now |-> clock + delay,
                            result |-> <<cache_key, CacheCallsMade + 1>>,
                            before |-> server.analysis_cache,
                            calls |-> CacheCallsMade + 1]
    /\ UNCHANGED <<gf, gf_call, gen, report, cipher, block_call, enc, dec,
                   failures, inverse_call, analysis, handler, rate_limiter,
                   limiter_call, granted>>

\* clear_cache(): "analysis_cache.clear(); pending_results.clear()"; it
\* returns the number of entries removed.
ClearCacheCall ==
    /\ CacheCallsMade < MaxCacheCalls
    /\ server' = [analysis_cache |-> <<>>, pending_results |-> <<>>]
    /\ cache_call' = [op |-> "clear_cache", cache_key |-> 0, now |-> clock,
                      result |-> <<Len(server.analysis_cache)>>,
                      before |-> server.analysis_cache,
                      calls |-> CacheCallsMade + 1]
    /\ UNCHANGED <<gf, gf_call, gen, report, cipher, block_call, enc, dec,
                   failures, inverse_call, analysis, handler, rate_limiter,
                   limiter_call, granted, clock>>

NextCache == GetFromCache \/ SaveToCache \/ ClearCacheCall

SpecCache == InitCache /\ [][NextCache]_vars

\* The items of dict with a key other than k
Others(dict, k) == {dict[i] : i \in {j \in 1..Len(dict) : dict[j].key # k}}

\* The items of dict with the key k
ItemsOf(dict, k) == {dict[i] : i \in {j \in 1..Len(dict) : dict[j].key = k}}

\* C22: get_from_cache(key) returns a stored result only while the entry's
\* age is strictly less than CACHE_TTL_MINUTES, and then it is the result
\* stored for that key; an entry it finds expired (age equal to the TTL or
\* more) is removed from analysis_cache and None is returned; the other
\* entries stay.
ExpiredNeverServed ==
    cache_call.op = "get_from_cache" =>
        \E stored \in {ItemsOf(cache_call.before, cache_call.cache_key)} :
            /\ cache_call.result # None =>
                  /\ \E item \in stored :
                        /\ cache_call.now - item.value[2] < TtlSeconds
                        /\ cache_call.result = item.value[1]
                  /\ server.analysis_cache = cache_call.before
            /\ \A item \in stored :
                  cache_call.now - item.value[2] >= TtlSeconds =>
                      /\ cache_call.result = None
                      /\ ItemsOf(server.analysis_cache, cache_call.cache_key) = {}
            /\ Others(server.analysis_cache, cache_call.cache_key)
                  = Others(cache_call.before, cache_call.cache_key)

\* The entry of key 1, saved at the time 10, was looked up exactly
\* CACHE_TTL_MINUTES later: it was removed and None was returned.
EntryExpiredAtTtl ==
    /\ cache_call.op = "get_from_cache"
    /\ cache_call.cache_key = 1
    /\ HasKey(cache_call.before, 1)
    /\ cache_call.now - GetItem(cache_call.before, 1)[2] = TtlSeconds
    /\ cache_call.result = None
    /\ ~HasKey(server.analysis_cache, 1)
    /\ Len(server.analysis_cache) = Len(cache_call.before) - 1

\* C23: after any sequence of save_to_cache, get_from_cache and clear_cache
\* calls analysis_cache holds at most 100 entries; a save that makes it
\* exceed 100 (a new key saved to a cache of 100) evicts one entry, which has
\* the oldest timestamp of all and is not the entry just saved: that one is
\* in the cache afterwards, with the result and the time of the save.
CacheStaysBounded ==
    /\ server # NotMade => Len(server.analysis_cache) <= CacheLimit
    /\ cache_call.op = "save_to_cache" =>
          /\ ItemsOf(server.analysis_cache, cache_call.cache_key)
                = {[key |-> cache_call.cache_key,
                    value |-> <<cache_call.result, cache_call.now>>]}
          /\ (Len(cache_call.before) = CacheLimit
               /\ ~HasKey(cache_call.before, cache_call.cache_key)) =>
                \E evicted \in Others(cache_call.before, cache_call.cache_key) :
                    /\ Others(server.analysis_cache, cache_call.cache_key)
                          = Others(cache_call.before, cache_call.cache_key)
                              \ {evicted}
                    /\ \A i \in 1..Len(cache_call.before) :
                          evicted.value[2] <= cache_call.before[i].value[2]
                    /\ evicted.value[2] <= cache_call.now
                    /\ Len(server.analysis_cache) = CacheLimit

\* A new key was saved to a cache of 100 entries whose first key had been
\* saved again: the entry evicted is that of key 2, the oldest, and neither
\* the first in the dict nor the one just saved.
OldestEvicted ==
    /\ cache_call.op = "save_to_cache"
    /\ Len(cache_call.before) = CacheLimit
    /\ cache_call.cache_key = CacheLimit + 1
    /\ HasKey(cache_call.before, 2) /\ ~HasKey(server.analysis_cache, 2)
    /\ HasKey(server.analysis_cache, 1)
    /\ GetItem(cache_call.before, 1)[2] > GetItem(cache_call.before, 2)[2]
    /\ HasKey(server.analysis_cache, CacheLimit + 1)
    /\ Len(server.analysis_cache) = CacheLimit

\* ---------------------------------------------------------------------
\* The two multipliers
\* ---------------------------------------------------------------------

\* C29: the cipher's shift-and-reduce multiplier and the table-based
\* multiplier compute the same function: for every a and b in 0..255,
\* _gf_multiply(a, b) equals GF256.multiply(a, b), and the result is in
\* 0..255.
MultipliersAgree ==
    gf_call.op = "multiply" =>
        \E product \in {gf_multiply(gf_call.a, gf_call.b)} :
            /\ product = gf_call.result
            /\ product \in 0..255
            /\ gf_call.result \in 0..255

\* Both multipliers were asked for 0x53 * 0xCA, a product that needs the
\* reduction, and both answered 1.
BothMultiplied53ByCA ==
    /\ gf_call.op = "multiply"
    /\ gf_call.a = 83 /\ gf_call.b = 202
    /\ gf_call.result = 1
    /\ gf_multiply(83, 202) = 1

=============================================================================
